---- MODULE Spec2Model ----
(***************************************************************************)
(* Model of the note-synchronisation driver of get_forms.py                *)
(* (run_create_notes and the functions it calls): the OLD portal's form    *)
(* submissions are turned into notes on the matching NEW portal contact,   *)
(* with a local ledger (created_note_keys.jsonl) and a three-tier remote   *)
(* duplicate check.                                                        *)
(*                                                                         *)
(* One run of run_create_notes is a sequence of steps; the suspension      *)
(* points are the remote calls (hubspot_get / hubspot_post / create_note / *)
(* associate_note_to_contact).  The process can be killed at any of them   *)
(* except in the middle of a write (between create_note and the append to  *)
(* the ledger).  A small append to the ledger file is one write(2) call    *)
(* and is modelled as atomic.                                              *)
(***************************************************************************)
EXTENDS Naturals, Integers, Sequences, FiniteSets, TLC

(***************************************************************************)
(* Bounds of the model.                                                    *)
(***************************************************************************)
MaxItems == 2        \* submissions in the OLD portal, all forms together
MaxRuns == 2         \* runs of run_create_notes against the same ledger

(***************************************************************************)
(* Program constants.                                                      *)
(***************************************************************************)
\* max_retries of hubspot_get, hubspot_post, create_note and
\* associate_note_to_contact; 5 in the source, scaled
max_retries == 3
\* per-contact cap of inspected notes; 500 in the source, scaled to the
\* number of notes the model can hold
MAX_NOTES_TO_CHECK_PER_CONTACT == 2

(***************************************************************************)
(* The data.                                                               *)
(***************************************************************************)
\* forms of the OLD portal, in the order of forms_sorted (sorted by guid)
forms_sorted == <<"f1", "f2">>
Forms == {"f1", "f2"}

\* contacts of the NEW portal (new_email_to_id maps the e-mail to the id)
Contacts == {"k1"}
NoContact == "none"

\* Submissions.  E1 and E2 are two submissions of the same person on the
\* same page and day (same semantic key, different conversionId); the
\* conversionId of E2 has characters outside [0-9a-fA-F-].  EB is a
\* malformed record (extract_identifiers raises on it), EX has an e-mail
\* that is unknown in the NEW portal.
Events == {"E1", "E2", "EB", "EX"}

\* the submissions a form can have: every kind on f1, and on f2 only
\* submissions of people who are not contacts of the NEW portal
EventsOf(f) == IF f = "f1" THEN Events ELSE {"EX"}

conversionId(e) ==
    CASE e = "E1" -> "a1"
      [] e = "E2" -> "b2-zz"
      [] e = "EX" -> "c3"
      [] OTHER    -> ""

\* new_email_to_id.get(submission_email_normalized)
ContactOf(e) == IF e \in {"E1", "E2"} THEN "k1" ELSE NoContact

Malformed(e) == e = "EB"

\* f"{normalized_page_url}|{submitted_date}|{submission_email_normalized}"
SemanticKeyOf(e) ==
    CASE e \in {"E1", "E2"} -> "s1"
      [] e = "EX"           -> "s2"
      [] OTHER              -> ""

NoKey == <<"", "">>
NoSem == ""

make_submission_key(form_guid, conversion_id) == <<form_guid, conversion_id>>

\* The longest prefix of a conversionId that the character class
\* [0-9a-fA-F\-]+ of the marker pattern accepts.
HexPrefix(cid) == IF cid = "b2-zz" THEN "b2-" ELSE cid

(***************************************************************************)
(* Note bodies.  A body is what the renderer made of a submission: the     *)
(* format, the form and the submission it shows, and whether it carries    *)
(* the marker hs_form_submission_key=<key>.  "other" is a note that was    *)
(* not written by this program.                                            *)
(***************************************************************************)
OtherBody == [fmt |-> "other", form |-> "", ev |-> "", marked |-> FALSE]

submission_to_note_html(form_guid, e) ==
    [fmt |-> "html", form |-> form_guid, ev |-> e, marked |-> TRUE]

submission_to_note_text(form_guid, e) ==
    [fmt |-> "text", form |-> form_guid, ev |-> e, marked |-> TRUE]

\* a plain-text note of an older version of the program: no marker
LegacyBody(form_guid, e) ==
    [fmt |-> "text", form |-> form_guid, ev |-> e, marked |-> FALSE]

\* re.search(r'hs_form_submission_key=([0-9a-fA-F\-]+:[0-9a-fA-F\-]+)')
extract_marker_key(body) ==
    IF ~body.marked THEN NoKey
    ELSE IF HexPrefix(conversionId(body.ev)) = "" THEN NoKey
    ELSE <<body.form, HexPrefix(conversionId(body.ev))>>

\* page|date|email parsed back from the Page:, Submitted: and Email: lines
extract_semantic_key(body) ==
    IF body.fmt = "other" THEN NoSem ELSE SemanticKeyOf(body.ev)

\* The notes of the contact before the first run: none, one legacy note of
\* submission E1 of form f1, or as many unrelated notes as the cap inspects.
PreNotes == {<<>>, <<LegacyBody("f1", "E1")>>,
             [i \in 1..MAX_NOTES_TO_CHECK_PER_CONTACT |-> OtherBody]}

(***************************************************************************)
(* Sequences of bounded length.                                            *)
(***************************************************************************)
SeqUpTo(S, n) == UNION {[1..k -> S] : k \in 0..n}

Min(a, b) == IF a < b THEN a ELSE b

RECURSIVE SeqToSet(_)
SeqToSet(s) == IF s = <<>> THEN {} ELSE {Head(s)} \cup SeqToSet(Tail(s))

(***************************************************************************)
(* The state.                                                              *)
(***************************************************************************)
VARIABLES
    source,               \* OLD portal: form guid -> its submissions, in listing order
    notes,                \* NEW portal: the notes, in creation order: [body, contact]
    ledger,               \* ./out/created_note_keys.jsonl: the submission_key of each line
    runs,                 \* number of runs started so far
    prev_complete,        \* the previous run was a complete production run (see Finish)
    pc,                   \* position of the current run
    args,                 \* dry_run, resume, limit, max_scan of the current run
    form_idx,             \* index into forms_sorted
    pos,                  \* index of the current submission in the form's listing
    submission_keys_seen, \* the local set of processed submission keys
    cached,               \* contacts present in contact_existing_note_cache
    contact_existing_note_cache, \* contact -> [bodies, marker_keys, semantic_keys]
    counters,             \* the counters of the run
    note_ids,             \* result of list_note_ids_for_contact (indices into notes)
    note_id,              \* id returned by create_note (index into notes), 0 = None
    retry_count,          \* retry_count of the remote call in progress
    last_call             \* the remote call answered by the last step: [fn, resp]

\* The state of the paginated traversals (iter_threads_all,
\* iter_form_submissions_old, get_messages_all, fetch_all_threads) and of
\* the request layer, which are modelled on their own further down.
VARIABLES
    api_log,              \* the answers the API has given, in order
    it,                   \* iter_threads_all: channel filter -> locals of the traversal
    listing,              \* locals of iter_form_submissions_old, get_messages_all
                          \* or fetch_all_threads
    request,              \* locals of hubspot_request or hubspot_get (extract_10)
    calc                  \* one submission and what get_forms.py derives from it

pagevars == <<api_log, it, listing, request, calc>>

syncvars == <<source, notes, ledger, runs, prev_complete, pc, args, form_idx, pos,
              submission_keys_seen, cached, contact_existing_note_cache, counters,
              note_ids, note_id, retry_count, last_call>>

vars == <<syncvars, pagevars>>

\* no traversal is under way
NoTraversal ==
    /\ api_log = <<>>
    /\ it = <<>>
    /\ listing = <<>>
    /\ request = <<>>
    /\ calc = <<>>

\* what a remote call can answer: 2xx, 401/403, 429, 5xx, another 4xx,
\* or no answer at all (URLError, timeout)
Responses == {"ok", "auth", "rate", "server", "client", "transport"}

NoCall == [fn |-> "none", resp |-> "none"]

Running == {"fetch", "item", "list_ids", "batch_read", "dedup",
            "create", "associate", "append", "finish"}
Stopped == {"idle", "done", "exited", "killed"}

EmptyCacheEntry == [bodies |-> {}, marker_keys |-> {}, semantic_keys |-> {}]

ZeroCounters ==
    [scanned_submissions |-> 0, eligible_submissions |-> 0,
     skipped_local_submission_key |-> 0, skipped_existing_note_marker |-> 0,
     skipped_existing_note_semantic |-> 0, skipped_existing_note_exact |-> 0,
     fetched_contact_note_sets |-> 0, created_notes |-> 0, errors |-> 0]

\* the command lines that are tried (0 = unlimited): a production run
\* without and with --resume, a resumed one with --limit, and a dry run
\* without and with --max-scan
ArgChoices ==
    {[dry_run |-> FALSE, resume |-> FALSE, limit |-> 0, max_scan |-> 0],
     [dry_run |-> FALSE, resume |-> TRUE, limit |-> 0, max_scan |-> 0],
     [dry_run |-> FALSE, resume |-> TRUE, limit |-> 1, max_scan |-> 0],
     [dry_run |-> TRUE, resume |-> FALSE, limit |-> 0, max_scan |-> 0],
     [dry_run |-> TRUE, resume |-> FALSE, limit |-> 0, max_scan |-> 2]}

\* the memory of a process that has not started or is gone
NoArgs == [dry_run |-> FALSE, resume |-> FALSE, limit |-> 0, max_scan |-> 0]

(***************************************************************************)
(* The current submission and what run_create_notes derives from it.       *)
(***************************************************************************)
form_guid == forms_sorted[form_idx]
submission == source[form_guid][pos]
contact_id == ContactOf(submission)
submission_key == make_submission_key(form_guid, conversionId(submission))
semantic_key == SemanticKeyOf(submission)
note_body_html == submission_to_note_html(form_guid, submission)
note_body_text == submission_to_note_text(form_guid, submission)

\* a run that takes every run for a production run
dry_run_never == FALSE

\* main: run_create_notes(dry_run=args.dry_run or False, ...); the run
\* exists only under --create-notes, so with both flags dry_run wins
dry_run == args.dry_run \/ FALSE

(***************************************************************************)
(* load_created_note_keys: every line that has a submission_key.           *)
(***************************************************************************)
\* a loader that loses the last line of the file
load_created_note_keys_drops_last(file) ==
    IF file = <<>> THEN {} ELSE SeqToSet(SubSeq(file, 1, Len(file) - 1))

load_created_note_keys(file) == SeqToSet(file)

(***************************************************************************)
(* Where the loops of run_create_notes go next.                            *)
(***************************************************************************)
Ctl(p, f, i) == [pc |-> p, form_idx |-> f, pos |-> i]

\* the next iteration of "for form_idx, form in enumerate(forms_sorted)"
NextForm ==
    IF form_idx < Len(forms_sorted) THEN Ctl("fetch", form_idx + 1, 0)
    ELSE Ctl("finish", form_idx, pos)

\* the checks after the inner loop without the one on --limit: the break
\* leaves the inner loop only
AfterLoop_no_limit(c) ==
    IF args.max_scan > 0 /\ c.scanned_submissions >= args.max_scan
    THEN [pc |-> "finish", form_idx |-> form_idx, pos |-> pos]
    ELSE IF form_idx < Len(forms_sorted)
         THEN [pc |-> "fetch", form_idx |-> form_idx + 1, pos |-> 0]
         ELSE [pc |-> "finish", form_idx |-> form_idx, pos |-> pos]

\* the two checks that follow the inner loop
AfterLoop(c) ==
    IF args.limit > 0 /\ c.created_notes >= args.limit THEN Ctl("finish", form_idx, pos)
    ELSE IF args.max_scan > 0 /\ c.scanned_submissions >= args.max_scan
         THEN Ctl("finish", form_idx, pos)
    ELSE NextForm

\* "continue" in the inner loop: the next submission of the iterator
NextItem(c) ==
    IF pos < Len(source[form_guid]) THEN Ctl("item", form_idx, pos + 1)
    ELSE AfterLoop(c)

\* the end of the loop body (after a dry-run preview or a created note)
EndOfBody(c) ==
    IF args.limit > 0 /\ c.created_notes >= args.limit THEN AfterLoop(c)
    ELSE NextItem(c)

Goto(ctl) ==
    /\ pc' = ctl.pc
    /\ form_idx' = ctl.form_idx
    /\ pos' = ctl.pos

(***************************************************************************)
(* Init: the portals before the first run.                                 *)
(***************************************************************************)
Init ==
    /\ source \in {s \in [Forms -> SeqUpTo(Events, MaxItems)] :
                      /\ Len(s["f1"]) + Len(s["f2"]) <= MaxItems
                      /\ \A f \in Forms : \A i \in 1..Len(s[f]) :
                            s[f][i] \in EventsOf(f)}
    /\ \E pre \in PreNotes :
          notes = [i \in 1..Len(pre) |-> [body |-> pre[i], contact |-> "k1"]]
    /\ ledger = <<>>
    /\ runs = 0
    /\ prev_complete = FALSE
    /\ pc = "idle"
    /\ args = NoArgs
    /\ form_idx = 1
    /\ pos = 0
    /\ submission_keys_seen = {}
    /\ cached = {}
    /\ contact_existing_note_cache = [k \in Contacts |-> EmptyCacheEntry]
    /\ counters = ZeroCounters
    /\ note_ids = <<>>
    /\ note_id = 0
    /\ retry_count = 0
    /\ last_call = NoCall
    /\ NoTraversal

(***************************************************************************)
(* run_create_notes, from its start to the first page request.  The set-up *)
(* calls (portal details, e-mail index, form list) come before any item    *)
(* and are left out: when one of them fails the run ends before it starts. *)
(***************************************************************************)
StartRun(a) ==
    /\ pc \in Stopped
    /\ UNCHANGED pagevars
    /\ runs < MaxRuns
    /\ runs' = runs + 1
    /\ args' = a
    /\ submission_keys_seen' = IF a.resume THEN load_created_note_keys(ledger) ELSE {}
    /\ cached' = {}
    /\ contact_existing_note_cache' = [k \in Contacts |-> EmptyCacheEntry]
    /\ counters' = ZeroCounters
    /\ Goto(Ctl("fetch", 1, 0))
    /\ note_ids' = <<>>
    /\ note_id' = 0
    /\ retry_count' = 0
    /\ last_call' = NoCall
    /\ UNCHANGED <<source, notes, ledger, prev_complete>>

(***************************************************************************)
(* hubspot_get and hubspot_post: one attempt of the request fn answered    *)
(* with resp.  Ok is what the caller does with the decoded answer.  429    *)
(* and 5xx are retried while retry_count < max_retries - 1; every other    *)
(* failure, and the exhausted retry, is sys.exit(2), which no              *)
(* "except Exception" of the callers catches.                              *)
(***************************************************************************)
\* the process is gone, and its memory with it
ProcessEnds(how) ==
    /\ pc' = how
    /\ prev_complete' = FALSE
    /\ args' = NoArgs
    /\ form_idx' = 1
    /\ pos' = 0
    /\ submission_keys_seen' = {}
    /\ cached' = {}
    /\ contact_existing_note_cache' = [k \in Contacts |-> EmptyCacheEntry]
    /\ counters' = ZeroCounters
    /\ note_ids' = <<>>
    /\ note_id' = 0
    /\ retry_count' = 0
    /\ UNCHANGED <<source, notes, ledger, runs>>

SysExit == ProcessEnds("exited")

Retry ==
    /\ retry_count' = retry_count + 1
    /\ UNCHANGED <<source, notes, ledger, runs, prev_complete, pc, args, form_idx, pos,
                   submission_keys_seen, cached, contact_existing_note_cache,
                   counters, note_ids, note_id>>

hubspot_get(fn, resp, Ok) ==
    /\ last_call' = [fn |-> fn, resp |-> resp]
    /\ CASE resp = "ok" -> Ok /\ retry_count' = 0
         [] resp \in {"rate", "server"} ->
                IF retry_count < max_retries - 1 THEN Retry ELSE SysExit
         [] OTHER -> SysExit

(***************************************************************************)
(* iter_form_submissions_old: the request for the form's page.  The        *)
(* listing of a form is one page here.                                     *)
(***************************************************************************)
FetchPage(resp) ==
    /\ pc = "fetch"
    /\ UNCHANGED pagevars
    /\ hubspot_get("fetch", resp,
          /\ Goto(IF source[form_guid] = <<>> THEN AfterLoop(counters)
                  ELSE Ctl("item", form_idx, 1))
          /\ UNCHANGED <<source, notes, ledger, runs, prev_complete, args,
                         submission_keys_seen, cached,
                         contact_existing_note_cache, counters, note_ids,
                         note_id>>)

(***************************************************************************)
(* The loop body from "scanned_submissions += 1" to the local check.       *)
(***************************************************************************)
ProcessItem ==
    /\ pc = "item"
    /\ UNCHANGED pagevars
    /\ last_call' = NoCall
    /\ LET c1 == [counters EXCEPT !.scanned_submissions = @ + 1]
           c2 == [c1 EXCEPT !.eligible_submissions = @ + 1]
           c3 == [c2 EXCEPT !.skipped_local_submission_key = @ + 1]
       IN  \* max_scan and limit are checked first: break
           IF \/ args.max_scan > 0 /\ c1.scanned_submissions >= args.max_scan
              \/ args.limit > 0 /\ c1.created_notes >= args.limit
           THEN counters' = c1 /\ Goto(AfterLoop(c1))
           \* extract_identifiers raises: "except Exception" of the form loop
           ELSE IF Malformed(submission)
           THEN counters' = c1 /\ Goto(NextForm)
           \* no e-mail, or the e-mail is not a contact of the NEW portal
           ELSE IF contact_id = NoContact
           THEN counters' = c1 /\ Goto(NextItem(c1))
           \* local idempotency
           ELSE IF submission_key \in submission_keys_seen
           THEN counters' = c3 /\ Goto(NextItem(c3))
           ELSE /\ counters' = c2
                /\ Goto(Ctl(IF contact_id \in cached THEN "dedup" ELSE "list_ids",
                            form_idx, pos))
    /\ UNCHANGED <<source, notes, ledger, runs, prev_complete, args,
                   submission_keys_seen, cached, contact_existing_note_cache,
                   note_ids, note_id, retry_count>>

(***************************************************************************)
(* get_contact_existing_note_bodies on a contact that is not cached yet.   *)
(***************************************************************************)
\* indices of the notes associated with contact k, in listing order
AssociatedTo(k) == SelectSeq([i \in 1..Len(notes) |-> i],
                             LAMBDA i : notes[i].contact = k)

\* list_note_ids_for_contact stops after the page that reaches the cap and
\* get_contact_existing_note_bodies keeps note_ids[:cap]
list_note_ids_for_contact(k) ==
    SubSeq(AssociatedTo(k), 1,
           Min(Len(AssociatedTo(k)), MAX_NOTES_TO_CHECK_PER_CONTACT))

\* the cache entry built from the bodies that were read
BuildCacheEntry(ids) ==
    LET bodies == {notes[ids[i]].body : i \in 1..Len(ids)}
        marked == {b \in bodies : extract_marker_key(b) # NoKey}
    IN [bodies |-> bodies,
        marker_keys |-> {extract_marker_key(b) : b \in marked},
        semantic_keys |-> {extract_semantic_key(b) : b \in bodies \ marked}
                             \ {NoSem}]

CacheFilled(entry) ==
    /\ contact_existing_note_cache' =
          [contact_existing_note_cache EXCEPT ![contact_id] = entry]
    /\ cached' = cached \cup {contact_id}
    /\ counters' = [counters EXCEPT !.fetched_contact_note_sets = @ + 1]
    /\ pc' = "dedup"
    /\ note_ids' = <<>>

ListNoteIds(resp) ==
    /\ pc = "list_ids"
    /\ UNCHANGED pagevars
    /\ hubspot_get("list_ids", resp,
          /\ IF list_note_ids_for_contact(contact_id) = <<>>
             THEN CacheFilled(EmptyCacheEntry)
             ELSE /\ note_ids' = list_note_ids_for_contact(contact_id)
                  /\ pc' = "batch_read"
                  /\ UNCHANGED <<cached, contact_existing_note_cache, counters>>
          /\ UNCHANGED <<source, notes, ledger, runs, prev_complete, args, form_idx,
                         pos, submission_keys_seen, note_id>>)

BatchReadNotes(resp) ==
    /\ pc = "batch_read"
    /\ UNCHANGED pagevars
    /\ hubspot_get("batch_read", resp,
          /\ CacheFilled(BuildCacheEntry(note_ids))
          /\ UNCHANGED <<source, notes, ledger, runs, prev_complete, args, form_idx,
                         pos, submission_keys_seen, note_id>>)

(***************************************************************************)
(* The remote skip rules A, B, C of run_create_notes, in their order.      *)
(***************************************************************************)
\* the cascade with rule B tried before rule A
RemoteTier_semantic_first(key, sem, html, text, entry) ==
    IF sem \in entry.semantic_keys THEN "semantic"
    ELSE IF key \in entry.marker_keys THEN "marker"
    ELSE IF html \in entry.bodies \/ text \in entry.bodies THEN "exact"
    ELSE "none"

RemoteTier(key, sem, html, text, entry) ==
    IF key \in entry.marker_keys THEN "marker"
    ELSE IF sem \in entry.semantic_keys THEN "semantic"
    ELSE IF html \in entry.bodies \/ text \in entry.bodies THEN "exact"
    ELSE "none"

\* "Mark as seen" / "Add to cache" after a created (or previewed) note
CacheAfterWrite ==
    [contact_existing_note_cache EXCEPT ![contact_id] =
        [bodies |-> @.bodies \cup {note_body_html},
         marker_keys |-> @.marker_keys \cup {submission_key},
         semantic_keys |-> @.semantic_keys \cup {semantic_key}]]

\* a remote skip that leaves the local set as it is
SeenAfterRemoteSkip_not_added == submission_keys_seen

\* a remote skip adds the key to the local set
SeenAfterRemoteSkip == submission_keys_seen \cup {submission_key}

DedupCheck ==
    /\ pc = "dedup"
    /\ UNCHANGED pagevars
    /\ last_call' = NoCall
    /\ LET tier == RemoteTier(submission_key, semantic_key, note_body_html,
                              note_body_text,
                              contact_existing_note_cache[contact_id])
           cm == [counters EXCEPT !.skipped_existing_note_marker = @ + 1]
           cs == [counters EXCEPT !.skipped_existing_note_semantic = @ + 1]
           cx == [counters EXCEPT !.skipped_existing_note_exact = @ + 1]
           cc == [counters EXCEPT !.created_notes = @ + 1]
       IN CASE tier = "marker" ->
                 /\ counters' = cm
                 /\ submission_keys_seen' = SeenAfterRemoteSkip
                 /\ Goto(NextItem(cm))
                 /\ UNCHANGED <<contact_existing_note_cache, retry_count>>
            [] tier = "semantic" ->
                 /\ counters' = cs
                 /\ submission_keys_seen' = SeenAfterRemoteSkip
                 /\ Goto(NextItem(cs))
                 /\ UNCHANGED <<contact_existing_note_cache, retry_count>>
            [] tier = "exact" ->
                 /\ counters' = cx
                 /\ submission_keys_seen' = SeenAfterRemoteSkip
                 /\ Goto(NextItem(cx))
                 /\ UNCHANGED <<contact_existing_note_cache, retry_count>>
            [] tier = "none" /\ dry_run ->
                 \* dry-run: preview only, the caches are updated as if written
                 /\ counters' = cc
                 /\ submission_keys_seen' = submission_keys_seen \cup {submission_key}
                 /\ contact_existing_note_cache' = CacheAfterWrite
                 /\ Goto(EndOfBody(cc))
                 /\ UNCHANGED retry_count
            [] OTHER ->
                 /\ Goto(Ctl("create", form_idx, pos))
                 /\ retry_count' = 0
                 /\ UNCHANGED <<counters, submission_keys_seen,
                                contact_existing_note_cache>>
    /\ UNCHANGED <<source, notes, ledger, runs, prev_complete, args, cached,
                   note_ids, note_id>>

(***************************************************************************)
(* create_note and associate_note_to_contact: one attempt answered with    *)
(* resp.  429 and 5xx are retried while retry_count < max_retries - 1;     *)
(* every other failure, 401/403 and a transport error included, makes the  *)
(* function return None / False at once.                                   *)
(***************************************************************************)
WriteCallFails(resp) ==
    IF resp \in {"rate", "server"} THEN retry_count >= max_retries - 1
    ELSE resp # "ok"

\* a failed item that is not recorded in errors
ItemFailed_not_recorded ==
    /\ counters' = counters
    /\ Goto(NextItem(counters))
    /\ retry_count' = 0
    /\ note_id' = 0

\* the caller's "errors.append(...); continue"
ItemFailed ==
    LET ce == [counters EXCEPT !.errors = @ + 1]
    IN /\ counters' = ce
       /\ Goto(NextItem(ce))
       /\ retry_count' = 0
       /\ note_id' = 0

CreateNote(resp) ==
    /\ pc = "create"
    /\ UNCHANGED pagevars
    /\ last_call' = [fn |-> "create", resp |-> resp]
    /\ IF resp = "ok"
       THEN /\ notes' = Append(notes, [body |-> note_body_html, contact |-> NoContact])
            /\ note_id' = Len(notes) + 1
            /\ pc' = "associate"
            /\ retry_count' = 0
            /\ UNCHANGED <<form_idx, pos, counters>>
       ELSE IF WriteCallFails(resp)
       THEN ItemFailed /\ UNCHANGED notes
       ELSE /\ retry_count' = retry_count + 1
            /\ UNCHANGED <<notes, note_id, pc, form_idx, pos, counters>>
    /\ UNCHANGED <<source, ledger, runs, prev_complete, args, submission_keys_seen,
                   cached, contact_existing_note_cache, note_ids>>

AssociateNote(resp) ==
    /\ pc = "associate"
    /\ UNCHANGED pagevars
    /\ last_call' = [fn |-> "associate", resp |-> resp]
    /\ IF resp = "ok"
       THEN /\ notes' = [notes EXCEPT ![note_id].contact = contact_id]
            /\ pc' = "append"
            /\ retry_count' = 0
            /\ UNCHANGED <<form_idx, pos, counters, note_id>>
       ELSE IF WriteCallFails(resp)
       THEN ItemFailed /\ UNCHANGED notes
       ELSE /\ retry_count' = retry_count + 1
            /\ UNCHANGED <<notes, note_id, pc, form_idx, pos, counters>>
    /\ UNCHANGED <<source, ledger, runs, prev_complete, args, submission_keys_seen,
                   cached, contact_existing_note_cache, note_ids>>

(***************************************************************************)
(* append_created_note_key and the bookkeeping of a created note.          *)
(***************************************************************************)
\* the file is opened with 'w': the entries before are lost
append_created_note_key_truncates(file, key) == <<key>>

\* open(jsonl_path, 'a'): one line is added at the end of the file
append_created_note_key(file, key) == Append(file, key)

RecordCreated ==
    /\ pc = "append"
    /\ UNCHANGED pagevars
    /\ last_call' = NoCall
    /\ ledger' = append_created_note_key(ledger, submission_key)
    /\ submission_keys_seen' = submission_keys_seen \cup {submission_key}
    /\ cached' = cached \cup {contact_id}
    /\ contact_existing_note_cache' = CacheAfterWrite
    /\ LET cc == [counters EXCEPT !.created_notes = @ + 1]
       IN counters' = cc /\ Goto(EndOfBody(cc))
    /\ note_id' = 0
    /\ UNCHANGED <<source, notes, runs, prev_complete, args, note_ids, retry_count>>

(***************************************************************************)
(* The process is killed between two steps of a run, but not in the       *)
(* middle of a write.                                                      *)
(***************************************************************************)
Kill ==
    /\ pc \in Running \ {"associate", "append"}
    /\ UNCHANGED pagevars
    /\ last_call' = NoCall
    /\ ProcessEnds("killed")

(***************************************************************************)
(* The end of run_create_notes: the summary is written and the process     *)
(* returns.  The counters are what the summary reports; prev_complete      *)
(* remembers whether this was a production run without --limit and         *)
(* --max-scan in which no item failed.                                     *)
(***************************************************************************)
Finish ==
    /\ pc = "finish"
    /\ UNCHANGED pagevars
    /\ pc' = "done"
    /\ last_call' = NoCall
    /\ prev_complete' = (/\ ~args.dry_run /\ args.limit = 0 /\ args.max_scan = 0
                         /\ counters.errors = 0)
    /\ form_idx' = 1
    /\ pos' = 0
    /\ submission_keys_seen' = {}
    /\ cached' = {}
    /\ contact_existing_note_cache' = [k \in Contacts |-> EmptyCacheEntry]
    /\ UNCHANGED <<source, notes, ledger, runs, args, counters, note_ids,
                   note_id, retry_count>>

Next ==
    \/ \E a \in ArgChoices : StartRun(a)
    \/ \E resp \in Responses : FetchPage(resp)
    \/ ProcessItem
    \/ \E resp \in Responses : ListNoteIds(resp)
    \/ \E resp \in Responses : BatchReadNotes(resp)
    \/ DedupCheck
    \/ \E resp \in Responses : CreateNote(resp)
    \/ \E resp \in Responses : AssociateNote(resp)
    \/ RecordCreated
    \/ Finish
    \/ Kill

Spec == Init /\ [][Next]_vars

\* run_create_notes is not running and has never run
NoRun ==
    /\ source = [f \in Forms |-> <<>>]
    /\ notes = <<>>
    /\ ledger = <<>>
    /\ runs = 0
    /\ prev_complete = FALSE
    /\ pc = "idle"
    /\ args = NoArgs
    /\ form_idx = 1
    /\ pos = 0
    /\ submission_keys_seen = {}
    /\ cached = {}
    /\ contact_existing_note_cache = [k \in Contacts |-> EmptyCacheEntry]
    /\ counters = ZeroCounters
    /\ note_ids = <<>>
    /\ note_id = 0
    /\ retry_count = 0
    /\ last_call = NoCall

(***************************************************************************)
(* chatbot_count.py, iter_threads_all: the stall-safe traversal of the     *)
(* thread listing.  The API answers every page request as it likes: a      *)
(* status, a page of threads and a next cursor.  The same answers are fed  *)
(* to one traversal per value of channel_account_id.                       *)
(***************************************************************************)
MaxRequests == 6     \* page requests the API answers in one traversal

\* the threads the API knows
Threads == {"t1", "t2", "t3", "t4"}

None == "None"
NoLmts == 0 - 1

\* thread.get('latestMessageTimestamp') in ms; t4 has none
latestMessageTimestamp(t) ==
    CASE t = "t1" -> 1 [] t = "t2" -> 2 [] t = "t3" -> 3 [] OTHER -> NoLmts

\* thread.get('originalChannelAccountId') or thread.get('channelAccountId')
channelAccountId(t) == IF t \in {"t1", "t2"} THEN "chA" ELSE "chB"

\* the values of channel_account_id: no filter, or the chat channel chA
Filters == {None, "chA"}

\* the pages the API can answer with, and the cursors
ApiPages ==
    {<<>>, <<"t1", "t2">>, <<"t3", "t4">>, <<"t4">>, <<"t2", "t3">>, <<"t3">>}
Cursors == {"c1", "c2"}

ApiResponses ==
    [status : {200}, results : ApiPages, next : Cursors \cup {None}]
    \cup {[status |-> 500, results |-> <<>>, next |-> None]}

\* the values of max_pages and scan_limit that are tried
ThreadCaps == {[max_pages |-> 1, scan_limit |-> 9],
               [max_pages |-> 2, scan_limit |-> 3],
               [max_pages |-> 3, scan_limit |-> 9]}

\* advance_timestamp_ms(lmts_str, ms)
advance_timestamp_ms(lmts, ms) == lmts + ms

\* the locals of iter_threads_all before the first request; requests,
\* escapes and yielded record what the traversal has done
ThreadsStart(caps) ==
    [max_pages |-> caps.max_pages, scan_limit |-> caps.scan_limit,
     after |-> None, seen_thread_ids |-> {}, seen_page_sigs |-> {},
     last_seen_lmts |-> NoLmts, lmts_after |-> 0, pages |-> 0,
     yielded_count |-> 0, stop_reason |-> None, ended |-> FALSE,
     requests |-> 0, escapes |-> 0, yielded |-> <<>>]

\* a thread is passed over whatever ids were yielded before
PassedOver_no_dedupe(s, tid, channel_account_id) ==
    channel_account_id # None /\ channelAccountId(tid) # channel_account_id

\* the two "continue" of the for loop: the thread is of another channel,
\* or its id is in seen_thread_ids
PassedOver(s, tid, channel_account_id) ==
    \/ channel_account_id # None
       /\ channelAccountId(tid) # channel_account_id
    \/ tid \in s.seen_thread_ids

\* the thread that reaches scan_limit is yielded before the break
CountThread_yields_at_cap(s, tid) ==
    LET s1 == [s EXCEPT
                 !.seen_thread_ids = @ \cup {tid},
                 !.last_seen_lmts =
                     IF latestMessageTimestamp(tid) # NoLmts
                     THEN latestMessageTimestamp(tid) ELSE @,
                 !.yielded_count = @ + 1,
                 !.yielded = Append(@, tid)]
    IN IF s1.yielded_count >= s1.scan_limit
       THEN [s1 EXCEPT !.stop_reason = "scan_limit_reached"]
       ELSE s1

\* a thread that is not passed over: remembered, counted, and yielded
\* unless it reaches scan_limit (stop_reason is set, then break)
CountThread(s, tid) ==
    LET s1 == [s EXCEPT
                 !.seen_thread_ids = @ \cup {tid},
                 !.last_seen_lmts =
                     IF latestMessageTimestamp(tid) # NoLmts
                     THEN latestMessageTimestamp(tid) ELSE @,
                 !.yielded_count = @ + 1]
    IN IF s1.yielded_count >= s1.scan_limit
       THEN [s1 EXCEPT !.stop_reason = "scan_limit_reached"]
       ELSE [s1 EXCEPT !.yielded = Append(@, tid)]

\* "for thread in results": filter, de-duplicate, count, yield
RECURSIVE YieldThreads(_, _, _)
YieldThreads(s, results, channel_account_id) ==
    IF results = <<>> THEN s
    ELSE LET tid == Head(results)
             rest == Tail(results)
         IN IF PassedOver(s, tid, channel_account_id)
            THEN YieldThreads(s, rest, channel_account_id)
            ELSE LET s1 == CountThread(s, tid)
                 IN IF s1.yielded_count >= s1.scan_limit
                    THEN s1
                    ELSE YieldThreads(s1, rest, channel_account_id)

\* "stop_reason = r; break"
StopWith(s, r) == [s EXCEPT !.stop_reason = r, !.ended = TRUE]

\* an escape that counts the repeated page in pages a second time
StallEscape_counts_page(s) ==
    [s EXCEPT !.lmts_after = advance_timestamp_ms(s.last_seen_lmts, 1),
              !.after = None,
              !.seen_page_sigs = {},
              !.pages = @ + 1,
              !.escapes = @ + 1]

\* STALL ESCAPE: advance the timestamp window, drop the cursor and the
\* signatures; pages is not incremented
StallEscape(s) ==
    [s EXCEPT !.lmts_after = advance_timestamp_ms(s.last_seen_lmts, 1),
              !.after = None,
              !.seen_page_sigs = {},
              !.escapes = @ + 1]

\* (lmts_after, after, first_id, last_id, len(ids), next_after_raw)
page_sig(s, resp) ==
    <<s.lmts_after, s.after,
      IF resp.results = <<>> THEN None ELSE Head(resp.results),
      IF resp.results = <<>> THEN None ELSE resp.results[Len(resp.results)],
      Len(resp.results), resp.next>>

\* the body of "while pages < max_pages and yielded_count < scan_limit"
\* for the request answered with resp
LoopBody(s, resp, channel_account_id) ==
    LET s0 == [s EXCEPT !.requests = @ + 1]
    IN IF resp.status # 200 THEN StopWith(s0, "http_error")
       ELSE IF Len(resp.results) = 0 THEN StopWith(s0, "no_results")
       ELSE IF page_sig(s, resp) \in s.seen_page_sigs
       THEN IF s.last_seen_lmts = NoLmts
            THEN StopWith(s0, "page_repeated_no_timestamp")
            ELSE StallEscape(s0)
       ELSE LET s1 == [s0 EXCEPT !.seen_page_sigs = @ \cup {page_sig(s, resp)}]
                s2 == YieldThreads(s1, resp.results, channel_account_id)
            IN IF resp.next # None /\ resp.next # s.after
               THEN [s2 EXCEPT !.after = resp.next, !.pages = @ + 1]
               ELSE IF resp.next = None THEN StopWith(s2, "no_next_cursor")
               ELSE IF s2.last_seen_lmts = NoLmts
               THEN StopWith(s2, "cursor_repeated_no_timestamp")
               ELSE StallEscape(s2)

\* a loop condition that lets one page too many through
LoopExit_off_by_one(s) ==
    IF s.ended THEN s
    ELSE IF s.pages <= s.max_pages /\ s.yielded_count < s.scan_limit THEN s
    ELSE [s EXCEPT !.ended = TRUE,
                   !.stop_reason =
                       IF @ # None THEN @
                       ELSE IF s.yielded_count >= s.scan_limit
                            THEN "scan_limit_reached"
                            ELSE "max_pages_reached"]

\* the loop condition, and the stop reason given after the loop when none
\* was set
LoopExit(s) ==
    IF s.ended THEN s
    ELSE IF s.pages < s.max_pages /\ s.yielded_count < s.scan_limit THEN s
    ELSE [s EXCEPT !.ended = TRUE,
                   !.stop_reason =
                       IF @ # None THEN @
                       ELSE IF s.yielded_count >= s.scan_limit
                            THEN "scan_limit_reached"
                            ELSE "max_pages_reached"]

\* one iteration of the loop of iter_threads_all
iter_threads_all(s, resp, channel_account_id) ==
    LoopExit(LoopBody(s, resp, channel_account_id))

InitThreads ==
    /\ NoRun
    /\ api_log = <<>>
    /\ \E caps \in ThreadCaps : it = [f \in Filters |-> ThreadsStart(caps)]
    /\ listing = <<>>
    /\ request = <<>>
    /\ calc = <<>>

\* the API answers the next page request of the traversals that still run
ThreadsPage(resp) ==
    /\ Len(api_log) < MaxRequests
    /\ \E f \in Filters : ~it[f].ended
    /\ api_log' = Append(api_log, resp)
    /\ it' = [f \in Filters |->
                IF it[f].ended THEN it[f] ELSE iter_threads_all(it[f], resp, f)]
    /\ UNCHANGED <<listing, request, calc>>
    /\ UNCHANGED syncvars

NextThreads == \E resp \in ApiResponses : ThreadsPage(resp)

SpecThreads == InitThreads /\ [][NextThreads]_vars


(***************************************************************************)
(* get_forms.py, iter_form_submissions_old and chatbot_count.py,           *)
(* get_messages_all: the two listings that have no timestamp window to     *)
(* escape a stall with.  The API answers every page request as it likes.   *)
(***************************************************************************)
MaxFetches == 4      \* page requests the API answers in one traversal

\* the submissions (or messages) the API knows, and its pages
Items == {"m1", "m2", "m3"}
ListingPages == {<<>>, <<"m1", "m2">>, <<"m3">>}

NoOffset == 0 - 1

\* the JSON hubspot_get returns for a page of submissions: results,
\* paging.next.after, hasMore and offset; status 500 stands for the
\* failures on which hubspot_get leaves the process
FormResponses ==
    [status : {200}, results : ListingPages, next : Cursors \cup {None},
     hasMore : BOOLEAN, offset : {0, 2}]
    \cup {[status |-> 500, results |-> <<>>, next |-> None,
           hasMore |-> FALSE, offset |-> 0]}

\* what hubspot_request returns for a page of messages
MessageResponses ==
    [status : {200}, results : ListingPages, next : Cursors \cup {None}]
    \cup {[status |-> 500, results |-> <<>>, next |-> None]}

\* the locals of iter_form_submissions_old before the first request; sent
\* records the pagination parameters of the requests, yielded the
\* submissions handed to the caller, stop how the loop was left
FormsStart ==
    [fn |-> "iter_form_submissions_old",
     pages_fetched |-> 0, after |-> None, offset |-> NoOffset,
     seen_cursors |-> [after |-> {}, offset |-> {}],
     use_legacy |-> None, yielded |-> <<>>, sent |-> {},
     stop |-> None, ended |-> FALSE]

\* "break", and what was seen of it ("stuck" is the printed warning)
FormsBreak(s, why) == [s EXCEPT !.stop = why, !.ended = TRUE]

\* the parameters of the request: offset when legacy, after when new-style
FormsParams(s) ==
    IF s.use_legacy = None THEN {}
    ELSE IF s.use_legacy = "True"
         THEN IF s.offset # NoOffset THEN {"offset"} ELSE {}
         ELSE IF s.after # None THEN {"after"} ELSE {}

\* a detection that is run again on every page
DetectStyle_every_page(s, resp) ==
    IF resp.next # None THEN "False"
    ELSE IF resp.hasMore THEN "True"
    ELSE None

\* "Detect pagination style on first page"
DetectStyle(s, resp) ==
    IF s.use_legacy # None THEN s.use_legacy
    ELSE IF resp.next # None THEN "False"
    ELSE IF resp.hasMore THEN "True"
    ELSE None

\* one iteration of "while True" of iter_form_submissions_old
iter_form_submissions_old(s, resp) ==
    LET s0 == [s EXCEPT !.sent = @ \cup FormsParams(s)]
    IN IF resp.status # 200 THEN FormsBreak(s0, "sys_exit")
       ELSE
       LET s1 == [s0 EXCEPT !.pages_fetched = @ + 1]
       IN IF resp.results = <<>> THEN FormsBreak(s1, "no_results")
          ELSE
          LET s2 == [s1 EXCEPT !.yielded = @ \o resp.results,
                               !.use_legacy = DetectStyle(s, resp)]
          IN IF s2.use_legacy = None THEN FormsBreak(s2, "no_paging")
             ELSE IF s2.use_legacy = "False"
             THEN IF resp.next = None THEN FormsBreak(s2, "no_next")
                  ELSE IF resp.next \in s2.seen_cursors.after
                  THEN FormsBreak(s2, "stuck")
                  ELSE [s2 EXCEPT !.seen_cursors.after = @ \cup {resp.next},
                                  !.after = resp.next]
             ELSE IF ~resp.hasMore THEN FormsBreak(s2, "no_more")
                  ELSE LET new_offset == resp.offset + Len(resp.results)
                       IN IF new_offset \in s2.seen_cursors.offset
                          THEN FormsBreak(s2, "stuck")
                          ELSE [s2 EXCEPT
                                  !.seen_cursors.offset = @ \cup {new_offset},
                                  !.offset = new_offset]

\* the locals of get_messages_all before the first request
MessagesStart ==
    [fn |-> "get_messages_all",
     all_results |-> <<>>, after |-> None, seen_page_sigs |-> {},
     prev_last_id |-> None, stop_reason |-> None, page_count |-> 0,
     ended |-> FALSE]

\* (first_msg_id, last_msg_id, count, next_after_raw)
message_page_sig(resp) ==
    <<IF resp.results = <<>> THEN None ELSE Head(resp.results),
      IF resp.results = <<>> THEN None ELSE resp.results[Len(resp.results)],
      Len(resp.results), resp.next>>

\* "stop_reason = r; break"
MessagesBreak(s, r) == [s EXCEPT !.stop_reason = r, !.ended = TRUE]

\* one iteration of "while True" of get_messages_all
get_messages_all(s, resp) ==
    LET s0 == [s EXCEPT !.page_count = @ + 1]
        last_id == resp.results[Len(resp.results)]
    IN IF resp.status # 200 THEN [s0 EXCEPT !.ended = TRUE]
       ELSE IF Len(resp.results) = 0 THEN MessagesBreak(s0, "empty_results")
       ELSE IF resp.next = None THEN MessagesBreak(s0, "no_next_cursor")
       ELSE IF resp.next = s.after /\ last_id = s.prev_last_id
       THEN MessagesBreak(s0, "cursor_not_advancing")
       ELSE IF message_page_sig(resp) \in s.seen_page_sigs
       THEN MessagesBreak(s0, "page_repeated")
       ELSE [s0 EXCEPT !.all_results = @ \o resp.results,
                       !.seen_page_sigs = @ \cup {message_page_sig(resp)},
                       !.prev_last_id = last_id,
                       !.after = resp.next]

InitListing ==
    /\ NoRun
    /\ api_log = <<>>
    /\ it = <<>>
    /\ listing \in {FormsStart, MessagesStart}
    /\ request = <<>>
    /\ calc = <<>>

\* the API answers the next page request of iter_form_submissions_old
FormsPage(resp) ==
    /\ listing.fn = "iter_form_submissions_old"
    /\ ~listing.ended
    /\ Len(api_log) < MaxFetches
    /\ api_log' = Append(api_log, resp)
    /\ listing' = iter_form_submissions_old(listing, resp)
    /\ UNCHANGED <<it, request, calc>>
    /\ UNCHANGED syncvars

\* the API answers the next page request of get_messages_all
MessagesPage(resp) ==
    /\ listing.fn = "get_messages_all"
    /\ ~listing.ended
    /\ Len(api_log) < MaxFetches
    /\ api_log' = Append(api_log, resp)
    /\ listing' = get_messages_all(listing, resp)
    /\ UNCHANGED <<it, request, calc>>
    /\ UNCHANGED syncvars

NextListing ==
    \/ \E resp \in FormResponses : FormsPage(resp)
    \/ \E resp \in MessageResponses : MessagesPage(resp)

SpecListing == InitListing /\ [][NextListing]_vars


(***************************************************************************)
(* init_poc.py, fetch_all_threads: the thread listing of the proof of      *)
(* concept, which remembers the last two cursors only.                     *)
(***************************************************************************)
\* the cursors the thread listing can return
CycleCursors == {"c1", "c2", "c3"}

\* what fetch_threads returns: the JSON of a 200 answer; on every other
\* answer it leaves the process (status 500 stands for them)
ThreadListResponses ==
    [status : {200}, results : ListingPages, next : CycleCursors \cup {None}]
    \cup {[status |-> 500, results |-> <<>>, next |-> None]}

\* the locals of fetch_all_threads before the first request
FetchAllStart ==
    [fn |-> "fetch_all_threads",
     all_threads |-> <<>>, after |-> None, page_num |-> 0,
     previous_after |-> None, stop |-> None, ended |-> FALSE]

\* "break", and the message printed before it
FetchAllBreak(s, why) == [s EXCEPT !.stop = why, !.ended = TRUE]

\* "if next_after == after or next_after == previous_after"
RepeatingCursor(s, next_after) ==
    next_after = s.after \/ next_after = s.previous_after

\* one iteration of "while True" of fetch_all_threads
fetch_all_threads(s, resp) ==
    LET s0 == [s EXCEPT !.page_num = @ + 1]
    IN IF resp.status # 200 THEN FetchAllBreak(s0, "sys_exit")
       ELSE IF Len(resp.results) = 0 THEN FetchAllBreak(s0, "no_results")
       ELSE
       LET s1 == [s0 EXCEPT !.all_threads = @ \o resp.results]
       IN IF resp.next = None THEN FetchAllBreak(s1, "no_next")
          ELSE IF RepeatingCursor(s, resp.next)
          THEN FetchAllBreak(s1, "repeating_cursor")
          ELSE [s1 EXCEPT !.previous_after = s.after, !.after = resp.next]

InitFetchAll ==
    /\ NoRun
    /\ api_log = <<>>
    /\ it = <<>>
    /\ listing = FetchAllStart
    /\ request = <<>>
    /\ calc = <<>>

\* the API answers the next page request of fetch_all_threads
FetchAllPage(resp) ==
    /\ ~listing.ended
    /\ Len(api_log) < MaxFetches
    /\ api_log' = Append(api_log, resp)
    /\ listing' = fetch_all_threads(listing, resp)
    /\ UNCHANGED <<it, request, calc>>
    /\ UNCHANGED syncvars

NextFetchAll == \E resp \in ThreadListResponses : FetchAllPage(resp)

SpecFetchAll == InitFetchAll /\ [][NextFetchAll]_vars


(***************************************************************************)
(* The request layer: chatbot_count.py, hubspot_request and extract_10.py, *)
(* hubspot_get.  One request is attempted until it returns or the process  *)
(* exits; 429 and 5xx answers share the counter retry_count.               *)
(***************************************************************************)
\* max_retries of the two functions, and the budget for 5xx answers
\* (max_retries_5xx in hubspot_request, "retry_count < 2" in hubspot_get)
max_retries_request == 5
max_retries_5xx == 3

\* what one attempt can be answered with: 200, another 2xx, 401, 404, 429,
\* 5xx, or no answer at all (URLError), written 0
HttpAnswers == {200, 204, 401, 404, 429, 500, 0}

RequestFns == {"hubspot_request", "hubspot_get"}

\* the locals of the function before the first attempt
RequestStart(fn) ==
    [fn |-> fn, retry_count |-> 0, result |-> None, ended |-> FALSE]

\* "return ..." and "sys.exit(2)"
Returns(s) == [s EXCEPT !.result = "returned", !.ended = TRUE]
Exits(s) == [s EXCEPT !.result = "exited", !.ended = TRUE]

\* "time.sleep(wait_time); retry_count += 1; continue", and the loop
\* condition "while retry_count < max_retries"
Retries(s) ==
    LET s1 == [s EXCEPT !.retry_count = @ + 1]
    IN IF s1.retry_count < max_retries_request THEN s1
       ELSE IF s.fn = "hubspot_get" THEN Returns(s1) ELSE Exits(s1)

\* "if retry_count < max_retries - 1" of the 429 branch
RateLimitRetried(count) == count < max_retries_request - 1

\* a 5xx branch that uses the budget of the 429 branch
ServerErrorRetried_like_429(count) ==
    count < max_retries_request - 1

\* "if retry_count < max_retries_5xx - 1" of the 5xx branch
ServerErrorRetried(count) == count < max_retries_5xx - 1

\* one attempt of the request, answered with status
request_attempt(s, status) ==
    IF status = 200 THEN Returns(s)
    ELSE IF status = 204
    THEN IF s.fn = "hubspot_request" THEN Returns(s) ELSE Exits(s)
    ELSE IF status = 404
    THEN IF s.fn = "hubspot_get" THEN Returns(s) ELSE Exits(s)
    ELSE IF status = 429
    THEN IF RateLimitRetried(s.retry_count) THEN Retries(s) ELSE Exits(s)
    ELSE IF status = 500
    THEN IF ServerErrorRetried(s.retry_count) THEN Retries(s) ELSE Exits(s)
    ELSE Exits(s)

InitRequest ==
    /\ NoRun
    /\ api_log = <<>>
    /\ it = <<>>
    /\ listing = <<>>
    /\ \E fn \in RequestFns : request = RequestStart(fn)
    /\ calc = <<>>

\* the API answers the next attempt of the request
Attempt(status) ==
    /\ ~request.ended
    /\ api_log' = Append(api_log, status)
    /\ request' = request_attempt(request, status)
    /\ UNCHANGED <<it, listing, calc>>
    /\ UNCHANGED syncvars

NextRequest == \E status \in HttpAnswers : Attempt(status)

SpecRequest == InitRequest /\ [][NextRequest]_vars


(***************************************************************************)
(* The functions of get_forms.py that turn one submission into a note body *)
(* and into keys.  A string is a sequence of symbols: a symbol is one      *)
(* character, or a run of characters that no function of the program looks *)
(* inside (an HTML tag, an HTML entity, a host name, a field name, a fixed *)
(* line of the note).                                                      *)
(***************************************************************************)
\* the longest values list of a submission
MaxValues == 3

\* None where the code holds an Optional[str]
NoString == <<None>>

WhiteSpace == {" ", "\n"}

\* the symbols that hold the character '<'
LtSymbols == {"<", "<strong>", "</strong>", "<br>", "<ul>", "</ul>", "<li>", "</li>"}

Digits == {"0", "1", "2", "3", "4", "5", "6", "7", "8", "9"}

\* str.lstrip(), str.rstrip() and str.strip()
RECURSIVE lstrip(_)
lstrip(s) == IF s # <<>> /\ Head(s) \in WhiteSpace THEN lstrip(Tail(s)) ELSE s

RECURSIVE rstrip(_)
rstrip(s) ==
    IF s # <<>> /\ s[Len(s)] \in WhiteSpace
    THEN rstrip(SubSeq(s, 1, Len(s) - 1))
    ELSE s

strip(s) == rstrip(lstrip(s))

\* str.lower() on the letters the inputs hold
lower_symbol(c) ==
    CASE c = "A" -> "a"
      [] c = "Email" -> "email"
      [] c = "City" -> "city"
      [] OTHER -> c

lower(s) == [i \in 1..Len(s) |-> lower_symbol(s[i])]

\* str.startswith(p) and the slice s[n:]
startswith(s, p) == Len(s) >= Len(p) /\ SubSeq(s, 1, Len(p)) = p

slice_from(s, n) == SubSeq(s, n + 1, Len(s))

\* str.find(p) + 1: the first place p occurs at, 0 when it does not occur
find(s, p) ==
    LET at == {i \in 1..(Len(s) - Len(p) + 1) : SubSeq(s, i, i + Len(p) - 1) = p}
    IN IF at = {} THEN 0 ELSE CHOOSE i \in at : \A j \in at : i <= j

\* str.split(c) and c.join(parts)
RECURSIVE split(_, _)
split(s, c) ==
    LET i == find(s, <<c>>)
    IN IF i = 0 THEN <<s>>
       ELSE <<SubSeq(s, 1, i - 1)>> \o split(slice_from(s, i), c)

RECURSIVE join(_, _)
join(c, parts) ==
    IF parts = <<>> THEN <<>>
    ELSE IF Len(parts) = 1 THEN Head(parts)
    ELSE Head(parts) \o c \o join(c, Tail(parts))

\* str.split(): the words between runs of whitespace
RECURSIVE split_words(_)
split_words(s) ==
    LET t == lstrip(s)
        ws == {i \in 1..Len(t) : t[i] \in WhiteSpace}
        n == IF ws = {} THEN Len(t) + 1 ELSE CHOOSE i \in ws : \A j \in ws : i <= j
    IN IF t = <<>> THEN <<>>
       ELSE <<SubSeq(t, 1, n - 1)>> \o split_words(slice_from(t, n - 1))

\* the part of s before the first c (all of s without one) and the part
\* after it (nothing without one)
before_first(s, c) ==
    IF find(s, <<c>>) = 0 THEN s ELSE SubSeq(s, 1, find(s, <<c>>) - 1)

after_first(s, c) ==
    IF find(s, <<c>>) = 0 THEN <<>> ELSE slice_from(s, find(s, <<c>>))

\* the longest run of symbols outside stops that s starts with
RECURSIVE run_until(_, _)
run_until(s, stops) ==
    IF s = <<>> \/ Head(s) \in stops THEN <<>>
    ELSE <<Head(s)>> \o run_until(Tail(s), stops)

\* urllib.parse.urlparse, after the scheme and the netloc: path, query and
\* fragment (no input holds ';', so params is empty)
urlparse_tail(scheme, netloc, tail) ==
    [scheme |-> scheme, netloc |-> netloc,
     path |-> before_first(before_first(tail, "#"), "?"),
     query |-> after_first(before_first(tail, "#"), "?"),
     fragment |-> after_first(tail, "#")]

\* urllib.parse.urlparse, after the scheme: the netloc follows "//" and ends
\* at the first '/', '?' or '#'
urlparse_netloc(scheme, rest) ==
    IF startswith(rest, <<"/", "/">>)
    THEN urlparse_tail(scheme, run_until(slice_from(rest, 2), {"/", "?", "#"}),
             slice_from(rest, 2 + Len(run_until(slice_from(rest, 2), {"/", "?", "#"}))))
    ELSE urlparse_tail(scheme, <<>>, rest)

\* urllib.parse.urlparse: scheme, netloc, path, query and fragment of a URL
urlparse(url) ==
    IF find(url, <<":">>) = 0 THEN urlparse_netloc(<<>>, url)
    ELSE urlparse_netloc(before_first(url, ":"), after_first(url, ":"))

\* urllib.parse.urlunparse of a URL that has a netloc
urlunparse(scheme, netloc, path, query, fragment) ==
    (IF scheme # <<>> THEN scheme \o <<":">> ELSE <<>>)
        \o (IF netloc # <<>>
            THEN <<"/", "/">> \o netloc
                     \o (IF path # <<>> /\ Head(path) # "/" THEN <<"/">> ELSE <<>>)
            ELSE <<>>)
        \o path
        \o (IF query # <<>> THEN <<"?">> \o query ELSE <<>>)
        \o (IF fragment # <<>> THEN <<"#">> \o fragment ELSE <<>>)

\* netloc.replace("staging.arrsys.com", "arrsys.com"), NORMALIZE_STAGING_URLS
RECURSIVE replace_staging(_)
replace_staging(netloc) ==
    IF netloc = <<>> THEN <<>>
    ELSE IF startswith(netloc, <<"staging.", "arrsys.com">>)
    THEN <<"arrsys.com">> \o replace_staging(slice_from(netloc, 2))
    ELSE <<Head(netloc)>> \o replace_staging(Tail(netloc))

\* path.rstrip('/')
RECURSIVE rstrip_slash(_)
rstrip_slash(path) ==
    IF path # <<>> /\ path[Len(path)] = "/"
    THEN rstrip_slash(SubSeq(path, 1, Len(path) - 1))
    ELSE path

\* normalize_url and normalize_url_for_dedupe, after urlparse
unparse_normalized(parsed, path) ==
    urlunparse(parsed.scheme, replace_staging(parsed.netloc), path, parsed.query, <<>>)

\* normalize_url: the page of the note body
normalize_url(url) ==
    IF url = <<>> THEN url
    ELSE unparse_normalized(urlparse(url), urlparse(url).path)

\* normalize_url_for_dedupe: the page of the keys
normalize_url_for_dedupe(url) ==
    IF url = <<>> THEN url
    ELSE unparse_normalized(urlparse(url), rstrip_slash(urlparse(url).path))

\* the pageUrl of a submission: plain, with a trailing slash, on the staging
\* host with a fragment, with a query of two parameters, and missing
PageUrls ==
    { <<"https", ":", "/", "/", "arrsys.com", "/", "p">>,
      <<"https", ":", "/", "/", "arrsys.com", "/", "p", "/">>,
      <<"https", ":", "/", "/", "staging.", "arrsys.com", "/", "p", "#", "f">>,
      <<"https", ":", "/", "/", "arrsys.com", "/", "p", "?", "a", "&", "b">>,
      <<>> }

\* submittedAt in epoch milliseconds: missing, 01:00 UTC and 10:00 UTC of
\* 1970-01-01
SubmittedAts == {0, 3600000, 36000000}

Unknown == <<"(unknown)">>

\* strftime("%Y-%m-%d") of the days the inputs fall on, by days since the epoch
strftime(day) ==
    IF day = 0 - 1
    THEN <<"1", "9", "6", "9", "-", "1", "2", "-", "3", "1">>
    ELSE <<"1", "9", "7", "0", "-", "0", "1", "-", "0", "1">>

\* datetime.fromtimestamp(ms / 1000.0, utc).astimezone(America/Toronto), which
\* is five hours behind UTC on the days of the inputs
toronto_date(ms) == strftime((ms - 18000000) \div 86400000)

\* submitted_day_ms
submitted_day_ms(submitted_at_ms) ==
    IF submitted_at_ms = 0 THEN Unknown ELSE toronto_date(submitted_at_ms)

\* normalize_email: stripped and lower-cased, None unless it holds an '@'
\* followed by a domain with a dot
normalize_email(s) ==
    IF s = <<>> THEN NoString
    ELSE LET t == lower(strip(s))
             parts == split(t, "@")
         IN IF Len(parts) >= 2 /\ find(parts[2], <<".">>) # 0 THEN t ELSE NoString

\* normalize_value: stripped, runs of whitespace collapsed
normalize_value(s) == join(<<" ">>, split_words(strip(s)))

\* a dict is the sequence of its items in insertion order
dict_has(d, k) == \E i \in 1..Len(d) : d[i].key = k

dict_get(d, k) == d[CHOOSE i \in 1..Len(d) : d[i].key = k].value

\* d[k] = v: an existing key keeps its place
dict_set(d, k, v) ==
    IF dict_has(d, k)
    THEN [i \in 1..Len(d) |-> IF d[i].key = k THEN [key |-> k, value |-> v] ELSE d[i]]
    ELSE Append(d, [key |-> k, value |-> v])

\* the entries a values list is made of: an email, a city, the same city
\* under another letter case of the name and with other whitespace, and
\* another city
FieldEntries ==
    { [name |-> <<"email">>, value |-> <<"a", "@", "b", ".", "c">>],
      [name |-> <<"city">>, value |-> <<"x", " ", "y">>],
      [name |-> <<"City">>, value |-> <<" ", "x", " ", " ", "y">>],
      [name |-> <<"city">>, value |-> <<"z">>] }

\* and the same email under another letter case, with whitespace
Entries ==
    FieldEntries \cup
    { [name |-> <<"Email">>, value |-> <<" ", "A", "@", "b", ".", "c">>] }

ValuesOver(entries) == UNION {[1..n -> entries] : n \in 0..MaxValues}

ValuesLists == ValuesOver(Entries)

\* values_list_to_map: the last non-empty value of a name wins
RECURSIVE values_list_to_map(_)
values_list_to_map(values_list) ==
    IF values_list = <<>> THEN <<>>
    ELSE LET n == Len(values_list)
             item == values_list[n]
             field_map == values_list_to_map(SubSeq(values_list, 1, n - 1))
             name_str == strip(lower(item.name))
             value_str == strip(item.value)
         IN IF name_str # <<>> /\ value_str # <<>>
            THEN dict_set(field_map, name_str, value_str)
            ELSE field_map

\* extract_identifiers, the email: the field named email (the first of the
\* exact candidates, and the only name of the inputs that holds "email")
extract_identifiers(subm) ==
    LET field_map == values_list_to_map(subm.values)
    IN IF dict_has(field_map, <<"email">>)
       THEN normalize_email(dict_get(field_map, <<"email">>))
       ELSE NoString

\* _extract_canonical_fields_from_submission, Step A: the first non-empty
\* value of a name wins
RECURSIVE note_raw_fields(_)
note_raw_fields(values) ==
    IF values = <<>> THEN <<>>
    ELSE LET n == Len(values)
             item == values[n]
             raw_fields == note_raw_fields(SubSeq(values, 1, n - 1))
             raw_name == lower(item.name)
             raw_value == strip(item.value)
         IN IF item.name # <<>> /\ ~dict_has(raw_fields, raw_name) /\ raw_value # <<>>
            THEN dict_set(raw_fields, raw_name, raw_value)
            ELSE raw_fields

\* raw_key.replace('_', ' ').title() on the names of the inputs
title(raw_key) == [i \in 1..Len(raw_key) |->
                     IF raw_key[i] = "city" THEN "City" ELSE raw_key[i]]

\* _extract_canonical_fields_from_submission: the canonical email, the
\* remaining fields under their labels, the page and the day (no input names
\* a phone, a name, a company or a country)
extract_canonical_fields_from_submission(submission_obj) ==
    LET raw_fields == note_raw_fields(submission_obj.values)
        rest == SelectSeq(raw_fields, LAMBDA f : f.key # <<"email">>)
    IN [canonical |-> SelectSeq(raw_fields, LAMBDA f : f.key = <<"email">>),
        remaining_fields |->
            [i \in 1..Len(rest) |-> [key |-> title(rest[i].key), value |-> rest[i].value]],
        page_url_normalized |-> normalize_url(submission_obj.pageUrl),
        submitted_date_str |->
            IF submission_obj.submittedAt = 0 THEN Unknown
            ELSE toronto_date(submission_obj.submittedAt)]

\* the fixed lines of a note and the labels of its lines
TitleLine == <<"Website form subm">>
FormLine == <<"Form: F (G)">>
ResponsesLine == <<"Responses:">>
NoAdditionalLine == <<" ", "(No additional fields captured)">>
PageLabel == <<"P", "a", "g", "e", ":">>
SubmittedLabel == <<"S", "u", "b", "m", "i", "t", "t", "e", "d", ":">>
EmailLabel == <<"E", "m", "a", "i", "l", ":">>

\* submission_to_note_text without a conversion_id, after the canonical
\* fields x are extracted: the plain text body
note_text_of(x) ==
    LET email_lines == [i \in 1..Len(x.canonical) |->
                          <<" ">> \o EmailLabel \o <<" ">> \o x.canonical[i].value]
        remaining_lines == [i \in 1..Len(x.remaining_fields) |->
                              <<" ">> \o x.remaining_fields[i].key \o <<":", " ">>
                                  \o x.remaining_fields[i].value]
        response_lines == email_lines \o remaining_lines
        lines == << TitleLine,
                    <<>>,
                    IF x.page_url_normalized # <<>>
                    THEN PageLabel \o <<" ">> \o x.page_url_normalized
                    ELSE PageLabel \o <<" ">> \o Unknown,
                    FormLine,
                    SubmittedLabel \o <<" ">> \o x.submitted_date_str,
                    <<>>,
                    ResponsesLine >>
                 \o response_lines
                 \o (IF Len(response_lines) = 1 /\ x.canonical # <<>>
                     THEN <<NoAdditionalLine>> ELSE <<>>)
    IN join(<<"\n">>, lines)

submission_to_note_text_body(submission_obj) ==
    note_text_of(extract_canonical_fields_from_submission(submission_obj))

\* html.escape(s, quote=True)
html_escape_symbol(c) ==
    CASE c = "&" -> "&amp;"
      [] c = "<" -> "&lt;"
      [] c = ">" -> "&gt;"
      [] c = "\"" -> "&quot;"
      [] c = "'" -> "&#x27;"
      [] OTHER -> c

html_escape(s) == [i \in 1..Len(s) |-> html_escape_symbol(s[i])]

\* ''.join(parts)
RECURSIVE concat(_)
concat(parts) == IF parts = <<>> THEN <<>> ELSE Head(parts) \o concat(Tail(parts))

\* submission_to_note_html without a conversion_id, after the canonical
\* fields x are extracted: the HTML body
note_html_of(x) ==
    LET email_items == [i \in 1..Len(x.canonical) |->
                          <<"<li>", "<strong>">> \o EmailLabel \o <<"</strong>", " ">>
                              \o html_escape(x.canonical[i].value) \o <<"</li>">>]
        remaining_items == [i \in 1..Len(x.remaining_fields) |->
                              <<"<li>", "<strong>">>
                                  \o html_escape(x.remaining_fields[i].key)
                                  \o <<":", "</strong>", " ">>
                                  \o html_escape(x.remaining_fields[i].value)
                                  \o <<"</li>">>]
        response_items == email_items \o remaining_items
        html_parts == << <<"<strong>">> \o TitleLine \o <<"</strong>", "<br>", "<br>">>,
                         IF x.page_url_normalized # <<>>
                         THEN <<"<strong>">> \o PageLabel \o <<"</strong>", " ">>
                                  \o html_escape(x.page_url_normalized) \o <<"<br>">>
                         ELSE <<"<strong>">> \o PageLabel \o <<"</strong>", " ">>
                                  \o Unknown \o <<"<br>">>,
                         <<"<strong>", "Form:", "</strong>", " ", "F (G)", "<br>">>,
                         <<"<strong>">> \o SubmittedLabel \o <<"</strong>", " ">>
                             \o html_escape(x.submitted_date_str) \o <<"<br>", "<br>">>,
                         <<"<strong>">> \o ResponsesLine \o <<"</strong>">>,
                         <<"<ul>">> >>
                      \o response_items
                      \o (IF Len(response_items) = 1 /\ x.canonical # <<>>
                          THEN << <<"<li>", "<strong>", "(No additional fields captured)",
                                    "</strong>", "</li>">> >>
                          ELSE <<>>)
                      \o << <<"</ul>">> >>
    IN concat(html_parts)

submission_to_note_html_body(submission_obj) ==
    note_html_of(extract_canonical_fields_from_submission(submission_obj))

\* s[:n]
take(s, n) == SubSeq(s, 1, Min(n, Len(s)))

\* [0-9]{4}-[0-9]{2}-[0-9]{2}
IsDate(d) ==
    /\ Len(d) = 10
    /\ \A i \in 1..10 : IF i \in {5, 8} THEN d[i] = "-" ELSE d[i] \in Digits

\* re.search(label + r'\s*([0-9]{4}-[0-9]{2}-[0-9]{2})', s): group 1 of the
\* first match, None without a match
re_search_date(s, label) ==
    LET after(i) == take(lstrip(slice_from(s, i - 1 + Len(label))), 10)
        matches == {i \in 1..Len(s) :
                      startswith(slice_from(s, i - 1), label) /\ IsDate(after(i))}
    IN IF matches = {} THEN NoString
       ELSE after(CHOOSE i \in matches : \A j \in matches : i <= j)

\* re.search(label + r'\s*([^<]+)' + closer, s): group 1 of the first match,
\* None without a match
re_search_run(s, label, closer) ==
    LET rest(i) == slice_from(s, i - 1 + Len(label))
        run(i) == run_until(rest(i), LtSymbols)
        matches == {i \in 1..Len(s) :
                      /\ startswith(slice_from(s, i - 1), label)
                      /\ run(i) # <<>>
                      /\ startswith(slice_from(rest(i), Len(run(i))), closer)}
    IN IF matches = {} THEN NoString
       ELSE run(CHOOSE i \in matches : \A j \in matches : i <= j)

\* bool(s) of an Optional[str]
Truthy(s) == s # NoString /\ s # <<>>

\* extract_semantic_key, the plain text branch: the loop over the lines
RECURSIVE parse_text_lines(_, _)
parse_text_lines(lines, found) ==
    IF lines = <<>> THEN found
    ELSE LET line == strip(Head(lines))
             page_url == strip(slice_from(line, 5))
             date_match == re_search_date(line, SubmittedLabel)
             next == IF startswith(line, PageLabel)
                     THEN [found EXCEPT !.page_url =
                              IF page_url = Unknown THEN NoString ELSE page_url]
                     ELSE IF startswith(line, SubmittedLabel)
                     THEN IF date_match # NoString
                          THEN [found EXCEPT !.submitted_date = strip(date_match)]
                          ELSE found
                     ELSE IF startswith(line, <<" ">> \o EmailLabel)
                     THEN [found EXCEPT !.email = strip(slice_from(line, 8))]
                     ELSE found
         IN parse_text_lines(Tail(lines), next)

\* extract_semantic_key, the HTML branch
parse_html(note_body) ==
    LET page_match == re_search_run(note_body,
                          <<"<strong>">> \o PageLabel \o <<"</strong>">>, <<"<br>">>)
        date_match == re_search_date(note_body,
                          <<"<strong>">> \o SubmittedLabel \o <<"</strong>">>)
        email_match == re_search_run(note_body,
                          <<"<li>", "<strong>">> \o EmailLabel \o <<"</strong>">>,
                          <<"</li>">>)
    IN [page_url |-> IF page_match = NoString \/ strip(page_match) = Unknown
                     THEN NoString ELSE strip(page_match),
        submitted_date |-> IF date_match = NoString THEN NoString ELSE strip(date_match),
        email |-> IF email_match = NoString THEN NoString ELSE strip(email_match)]

\* extract_semantic_key, the end: "{page}|{date}|{email}" when all three
\* are there
key_of_parts(page_url, submitted_date, email) ==
    IF Truthy(page_url) /\ Truthy(submitted_date) /\ Truthy(email)
    THEN page_url \o <<"|">> \o submitted_date \o <<"|">> \o email
    ELSE NoString

\* extract_semantic_key, the normalisation of what was found
key_of_found(found) ==
    key_of_parts(IF Truthy(found.page_url)
                 THEN normalize_url_for_dedupe(found.page_url)
                 ELSE found.page_url,
                 found.submitted_date,
                 IF Truthy(found.email) THEN strip(lower(found.email)) ELSE found.email)

\* extract_semantic_key on the symbols of a note body
extract_semantic_key_of_body(note_body) ==
    IF note_body = <<>> THEN NoString
    ELSE IF \E i \in 1..Len(note_body) : note_body[i] \in {"<strong>", "<br>", "<ul>"}
    THEN key_of_found(parse_html(note_body))
    ELSE key_of_found(parse_text_lines(split(note_body, "\n"),
             [page_url |-> NoString, submitted_date |-> NoString, email |-> NoString]))

\* run_create_notes: the email of a submission, None when it has none
submission_email_normalized(subm) ==
    LET submission_email == extract_identifiers(subm)
    IN IF submission_email = NoString THEN NoString
       ELSE normalize_email(submission_email)

\* run_create_notes: the semantic key of a submission that has an email
semantic_key_of(subm) ==
    normalize_url_for_dedupe(subm.pageUrl) \o <<"|">>
        \o submitted_day_ms(subm.submittedAt) \o <<"|">>
        \o submission_email_normalized(subm)

Submissions ==
    [pageUrl : PageUrls, submittedAt : SubmittedAts, values : ValuesLists]

NoteFormats == {"text", "html"}

\* a submission, before a note is made of it
NoteKeyStart(subm, fmt) ==
    [fn |-> "extract_semantic_key", pc |-> "start", submission |-> subm,
     fmt |-> fmt, note_body |-> <<>>, semantic_key |-> NoString,
     extracted |-> NoString]

InitNoteKey ==
    /\ NoRun
    /\ api_log = <<>>
    /\ it = <<>>
    /\ listing = <<>>
    /\ request = <<>>
    /\ \E subm \in Submissions, fmt \in NoteFormats :
           calc = NoteKeyStart(subm, fmt)

\* a note without a marker is made of the submission, in one of the formats
RenderNote ==
    /\ calc.pc = "start"
    /\ calc' = [calc EXCEPT
           !.pc = "rendered",
           !.note_body = IF calc.fmt = "text"
                         THEN submission_to_note_text_body(calc.submission)
                         ELSE submission_to_note_html_body(calc.submission)]
    /\ UNCHANGED <<api_log, it, listing, request>>
    /\ UNCHANGED syncvars

\* run_create_notes meets the submission again: it passes a submission
\* without an email over and computes the semantic key of another
ComputeSemanticKey ==
    /\ calc.pc = "rendered"
    /\ calc' = IF submission_email_normalized(calc.submission) = NoString
               THEN [calc EXCEPT !.pc = "passed"]
               ELSE [calc EXCEPT !.pc = "keyed",
                                 !.semantic_key = semantic_key_of(calc.submission)]
    /\ UNCHANGED <<api_log, it, listing, request>>
    /\ UNCHANGED syncvars

\* the remote check reads the note and extracts its semantic key
ExtractSemanticKey ==
    /\ calc.pc = "keyed"
    /\ calc' = [calc EXCEPT
           !.pc = "done",
           !.extracted = extract_semantic_key_of_body(calc.note_body)]
    /\ UNCHANGED <<api_log, it, listing, request>>
    /\ UNCHANGED syncvars

NextNoteKey == RenderNote \/ ComputeSemanticKey \/ ExtractSemanticKey

SpecNoteKey == InitNoteKey /\ [][NextNoteKey]_vars

\* build_canonical_fields, first pass: names lower-cased, values normalised,
\* the last non-empty value of a name wins
RECURSIVE canonical_raw_fields(_)
canonical_raw_fields(values) ==
    IF values = <<>> THEN <<>>
    ELSE LET n == Len(values)
             item == values[n]
             raw_fields == canonical_raw_fields(SubSeq(values, 1, n - 1))
             raw_name == lower(item.name)
             raw_value == IF item.value # <<>> THEN normalize_value(item.value) ELSE <<>>
         IN IF lower(item.name) = <<"objecttypeid">> \/ item.name = <<>>
            THEN raw_fields
            ELSE IF raw_value # <<>> \/ ~dict_has(raw_fields, raw_name)
            THEN dict_set(raw_fields, raw_name, raw_value)
            ELSE raw_fields

\* build_canonical_fields: the email normalised, then the remaining fields
\* that have a value (no input names a phone, a name, a company or a country)
build_canonical_fields(values) ==
    LET raw_fields == canonical_raw_fields(values)
        emails == SelectSeq(raw_fields, LAMBDA f : f.key = <<"email">>)
        rest == SelectSeq(raw_fields, LAMBDA f : f.key # <<"email">> /\ f.value # <<>>)
    IN [i \in 1..Len(emails) |->
           [key |-> <<"email">>,
            value |-> IF normalize_email(emails[i].value) # NoString
                      THEN normalize_email(emails[i].value)
                      ELSE strip(lower(emails[i].value))]]
       \o rest

\* the keys a canonical field map of the inputs can hold, in sorted order
SortedKeys == << <<"city">>, <<"email">> >>

\* json.dumps(d, sort_keys=True, separators=(',', ':')) of a dict of strings
json_dumps_fields(d) ==
    LET present == SelectSeq(SortedKeys, LAMBDA k : dict_has(d, k))
        items == [i \in 1..Len(present) |->
                    <<"\"">> \o present[i] \o <<"\"", ":", "\"">>
                        \o dict_get(d, present[i]) \o <<"\"">>]
    IN <<"{">> \o join(<<",">>, items) \o <<"}">>

\* json.dumps(fallback_payload, sort_keys=True, separators=(',', ':'))
json_dumps_payload(fallback_payload) ==
    <<"{", "\"", "email", "\"", ":", "\"">> \o fallback_payload.email
        \o <<"\"", ",", "\"", "fields", "\"", ":">>
        \o json_dumps_fields(fallback_payload.fields)
        \o <<",", "\"", "page", "\"", ":", "\"">> \o fallback_payload.page
        \o <<"\"", ",", "\"", "submitted_date", "\"", ":", "\"">>
        \o fallback_payload.submitted_date \o <<"\"", "}">>

\* hashlib.sha256(...).hexdigest(): one digest per text
sha256(text) == <<"sha256">> \o text

\* run_create_notes: the submission key of a submission that has an email
\* and no conversionId, for the form G
fallback_submission_key(subm) ==
    LET fallback_payload ==
            [email |-> submission_email_normalized(subm),
             page |-> normalize_url_for_dedupe(subm.pageUrl),
             submitted_date |-> submitted_day_ms(subm.submittedAt),
             fields |-> build_canonical_fields(subm.values)]
    IN <<"G", ":">> \o sha256(json_dumps_payload(fallback_payload))

\* the page and the time of the payloads that are compared
IdentityPageUrls ==
    { <<"https", ":", "/", "/", "staging.", "arrsys.com", "/", "p", "/", "#", "f">> }

IdentitySubmittedAts == {3600000}

\* two payloads of one page and one time, before run_create_notes meets them
IdentityPairs ==
    { [fn |-> "fallback_identity", pc |-> "start",
       payloads |-> << [pageUrl |-> p, submittedAt |-> t, values |-> v1],
                       [pageUrl |-> p, submittedAt |-> t, values |-> v2] >>,
       submission_keys |-> <<NoString, NoString>>] :
      p \in IdentityPageUrls, t \in IdentitySubmittedAts,
      v1 \in ValuesOver(FieldEntries), v2 \in ValuesOver(FieldEntries) }

InitIdentity ==
    /\ NoRun
    /\ api_log = <<>>
    /\ it = <<>>
    /\ listing = <<>>
    /\ request = <<>>
    /\ calc \in IdentityPairs

\* run_create_notes passes a submission without an email over
PassOverNoEmail ==
    /\ calc.pc = "start"
    /\ \E i \in 1..2 : submission_email_normalized(calc.payloads[i]) = NoString
    /\ calc' = [calc EXCEPT !.pc = "passed"]
    /\ UNCHANGED <<api_log, it, listing, request>>
    /\ UNCHANGED syncvars

\* run_create_notes derives the submission key of each of the two payloads
FallbackIdentity ==
    /\ calc.pc = "start"
    /\ \A i \in 1..2 : submission_email_normalized(calc.payloads[i]) # NoString
    /\ calc' = [calc EXCEPT
           !.pc = "done",
           !.submission_keys = [i \in 1..2 |-> fallback_submission_key(calc.payloads[i])]]
    /\ UNCHANGED <<api_log, it, listing, request>>
    /\ UNCHANGED syncvars

NextIdentity == PassOverNoEmail \/ FallbackIdentity

SpecIdentity == InitIdentity /\ [][NextIdentity]_vars


(***************************************************************************)
(* Properties.                                                             *)
(***************************************************************************)
\* the keys of the lines of the ledger file
LedgerKeys == SeqToSet(ledger)

\* the Identity whose marker a note body carries (as written, not as parsed)
MarkerOf(body) == make_submission_key(body.form, conversionId(body.ev))

\* the notes this program created: the bodies rendered with a marker
CreatedNotes == {i \in 1..Len(notes) : notes[i].body.marked}

\* the submission at pc = "item" gets as far as the local check
ReachesLocalCheck ==
    /\ pc = "item"
    /\ ~(args.max_scan > 0 /\ counters.scanned_submissions + 1 >= args.max_scan)
    /\ ~(args.limit > 0 /\ counters.created_notes >= args.limit)
    /\ ~Malformed(submission)
    /\ contact_id # NoContact

\* the step skips the current submission at the local tier and touches
\* neither the portal, nor the ledger, nor the per-contact cache
LocalSkipStep ==
    /\ counters'.skipped_local_submission_key =
          counters.skipped_local_submission_key + 1
    /\ pc' \in {"item", "fetch", "finish"}
    /\ UNCHANGED <<notes, ledger, cached, contact_existing_note_cache>>
    /\ counters'.fetched_contact_note_sets = counters.fetched_contact_note_sets

RemoteSkips(c) == c.skipped_existing_note_marker
                  + c.skipped_existing_note_semantic
                  + c.skipped_existing_note_exact

\* C1: for every Identity, at most one note carrying that Identity's marker
\* is ever created in the destination portal.
AtMostOneNotePerMarker ==
    \A i, j \in CreatedNotes :
        MarkerOf(notes[i].body) = MarkerOf(notes[j].body) => i = j

\* C2: for every Identity, at most one line with that submission_key is
\* ever appended to the ledger file.
AtMostOneLedgerEntryPerKey ==
    \A i, j \in 1..Len(ledger) : ledger[i] = ledger[j] => i = j

\* C3: a contact never gets two notes with the same SemanticKey from
\* distinct events (notes of distinct Identities), in one run or across runs.
AtMostOneNotePerSemanticKey ==
    \A i, j \in CreatedNotes :
        /\ notes[i].contact \in Contacts
        /\ notes[i].contact = notes[j].contact
        /\ SemanticKeyOf(notes[i].body.ev) = SemanticKeyOf(notes[j].body.ev)
        => MarkerOf(notes[i].body) = MarkerOf(notes[j].body)

ResumeSkipsLedgerKeysLocally ==
    [][(args.resume /\ ReachesLocalCheck /\ submission_key \in LedgerKeys
        /\ pc' # "killed")
       => LocalSkipStep]_vars

\* a resumed run has skipped a ledgered key at the local tier
ResumeLocalSkipWitness ==
    /\ args.resume
    /\ pc \in Running
    /\ ledger # <<>>
    /\ counters.skipped_local_submission_key > 0
    /\ counters.created_notes = 0

\* C6: a skip is attributed to the first matching tier in the order local
\* ledger, remote marker, remote semantic key, remote exact body.
SkipAttributedToFirstTier ==
    [][LET entry == contact_existing_note_cache[contact_id]
           local == submission_key \in submission_keys_seen
           marker == submission_key \in entry.marker_keys
           semantic == semantic_key \in entry.semantic_keys
           exact == \/ note_body_html \in entry.bodies
                    \/ note_body_text \in entry.bodies
       IN /\ (counters'.skipped_local_submission_key
                 > counters.skipped_local_submission_key) => local
          /\ (counters'.skipped_existing_note_marker
                 > counters.skipped_existing_note_marker)
             => (pc = "dedup" /\ ~local /\ marker)
          /\ (counters'.skipped_existing_note_semantic
                 > counters.skipped_existing_note_semantic)
             => (pc = "dedup" /\ ~local /\ ~marker /\ semantic)
          /\ (counters'.skipped_existing_note_exact
                 > counters.skipped_existing_note_exact)
             => (pc = "dedup" /\ ~local /\ ~marker /\ ~semantic /\ exact)
          /\ (pc = "dedup" /\ pc' # "killed" /\ marker)
             => (counters'.skipped_existing_note_marker
                    = counters.skipped_existing_note_marker + 1)
          /\ (pc = "dedup" /\ pc' # "killed" /\ ~marker /\ semantic)
             => (counters'.skipped_existing_note_semantic
                    = counters.skipped_existing_note_semantic + 1)
      ]_vars

\* the contact's notes match the current event by marker and by semantic
\* key at once, and the event is about to be checked
BothTiersMatchWitness ==
    /\ pc = "dedup"
    /\ submission_key \in contact_existing_note_cache[contact_id].marker_keys
    /\ semantic_key \in contact_existing_note_cache[contact_id].semantic_keys

\* C7: an event skipped by a remote tier has its Identity added to the
\* local set, the set only grows during a run, and an event whose Identity
\* is in the set is skipped at the local tier without a cache lookup.
RemoteSkipFeedsLocalSet ==
    [][/\ (RemoteSkips(counters') > RemoteSkips(counters))
          => submission_key \in submission_keys_seen'
       /\ (pc \in Running /\ pc' \in Running)
          => submission_keys_seen \subseteq submission_keys_seen'
       /\ (ReachesLocalCheck /\ submission_key \in submission_keys_seen
           /\ pc' # "killed")
          => LocalSkipStep
      ]_vars

\* in a run that loaded no ledger and wrote nothing, an Identity skipped
\* by a remote tier came again and was skipped at the local tier
RemoteThenLocalSkipWitness ==
    /\ pc \in Running
    /\ ~args.resume
    /\ counters.created_notes = 0
    /\ RemoteSkips(counters) > 0
    /\ counters.skipped_local_submission_key > 0

\* C8: a failing item never ends the traversal: a run that ends without
\* --limit or --max-scan has scanned every submission of every form.
ItemFailureNeverEndsTraversal ==
    (pc = "finish" /\ args.limit = 0 /\ args.max_scan = 0)
    => counters.scanned_submissions = Len(source["f1"]) + Len(source["f2"])

\* C9: a 401/403 answer to any remote call aborts the run at once.
AuthFailureAbortsRun ==
    [][last_call'.resp = "auth" => pc' = "exited"]_vars

\* C10: a transport error is retried first and never aborts the run.
TransportErrorRetriedThenItemFailed ==
    [][last_call'.resp = "transport"
       => /\ pc' # "exited"
          /\ (retry_count < max_retries - 1
                 => pc' = pc /\ retry_count' = retry_count + 1)]_vars

\* C11: a 429 answer to any remote call is retried while the retry budget
\* lasts and is never an item failure; with the budget used up the whole
\* run aborts, on the read path and on the write path alike.
RateLimitRetriedThenRunAborts ==
    [][last_call'.resp = "rate"
       => IF retry_count < max_retries - 1
          THEN pc' = pc /\ retry_count' = retry_count + 1
               /\ counters'.errors = counters.errors
          ELSE pc' = "exited"]_vars

\* C12: with --limit the number of created notes of a run never exceeds
\* the limit, and once it has reached the limit the run scans no further
\* item, fetches no further page and writes nothing: it ends.
LimitBoundsWrites ==
    [][/\ (args'.limit > 0 => counters'.created_notes <= args'.limit)
       /\ (args.limit > 0 /\ counters.created_notes >= args.limit
           /\ pc \in Running)
          => /\ pc' \in {"done", "killed"}
             /\ UNCHANGED <<notes, ledger>>]_vars

\* a production run with --limit has stopped after its last allowed note
\* with a submission of the form still unprocessed
LimitReachedWitness ==
    /\ pc = "finish"
    /\ args.limit > 0 /\ ~args.dry_run
    /\ counters.created_notes = args.limit
    /\ pos < Len(source[form_guid])
    /\ ContactOf(source[form_guid][pos + 1]) # NoContact

\* C13: a run started with --dry-run never sends a note-creation or
\* note-association request and never appends to the ledger file.
DryRunNeverWrites ==
    [][args.dry_run
       => /\ UNCHANGED <<notes, ledger>>
          /\ pc' \notin {"create", "associate", "append"}
          /\ last_call'.fn \notin {"create", "associate"}]_vars

\* a dry run has previewed a note that a production run would have written
DryRunPreviewWitness ==
    /\ args.dry_run
    /\ pc \in Running
    /\ counters.created_notes > 0

\* C16 as stated: the number of page requests of one iter_threads_all
\* traversal never exceeds max_pages, stall escapes included.
RequestsNeverExceedMaxPages ==
    \A f \in DOMAIN it : it[f].requests <= it[f].max_pages

\* C16 amended: pages, which counts the requests that advanced the cursor,
\* never exceeds max_pages; a request answered by a stall escape is not
\* counted, and the number of page requests never exceeds 2 * max_pages - 1.
RequestsBoundedByTwiceMaxPages ==
    \A f \in DOMAIN it :
        /\ it[f].pages <= it[f].max_pages
        /\ it[f].requests <= 2 * it[f].max_pages - 1
        /\ it[f].requests <= it[f].pages + it[f].escapes + 1

\* a traversal has ended with more requests than max_pages, every second
\* one answered by a stall escape
RequestsBeyondMaxPagesWitness ==
    \E f \in DOMAIN it :
        /\ it[f].ended
        /\ it[f].max_pages > 1
        /\ it[f].requests = 2 * it[f].max_pages - 1
        /\ it[f].escapes = it[f].max_pages - 1

\* the first three answers of the end-to-end scenario: a listing of three
\* pages of sizes 2, 2 and 0 answers page 1, page 2 and page 2 again (same
\* items and same next cursor) to a traversal whose caps leave room for it
RepeatOnceAnswers ==
    /\ Len(api_log) >= 3
    /\ \A i \in 1..3 : api_log[i].status = 200
    /\ Len(api_log[1].results) = 2 /\ Len(api_log[2].results) = 2
    /\ SeqToSet(api_log[1].results) \cap SeqToSet(api_log[2].results) = {}
    /\ api_log[1].next # None /\ api_log[2].next # None
    /\ api_log[3] = api_log[2]
    /\ it[None].max_pages >= 3 /\ it[None].scan_limit > 4

\* the whole scenario: the listing then advances to its empty third page
RepeatOnceScenario ==
    /\ RepeatOnceAnswers
    /\ Len(api_log) = 4
    /\ api_log[4].status = 200 /\ api_log[4].results = <<>>

\* what the traversal has yielded and counted once the repeat is behind it
FourItemsTwoPages ==
    /\ Len(it[None].yielded) = 4
    /\ Cardinality(SeqToSet(it[None].yielded)) = 4
    /\ it[None].pages = 2

\* C19: for a listing of 3 pages of sizes 2, 2 and 0 whose second page is
\* answered twice before the listing advances, the unfiltered traversal
\* yields exactly 4 items (each once), counts the repeated page once in
\* pages (pagesFetched = 2), goes on after the repeat and stops on the
\* empty page with "no_results".
RepeatOnceYieldsFourItems ==
    /\ (RepeatOnceAnswers /\ Len(api_log) = 3) =>
          FourItemsTwoPages /\ ~it[None].ended
    /\ RepeatOnceScenario =>
          /\ FourItemsTwoPages
          /\ it[None].ended
          /\ it[None].stop_reason = "no_results"

\* the scenario of C19 has been played to its end: four requests, one of
\* them answered by a stall escape
RepeatOnceWitness ==
    /\ RepeatOnceScenario
    /\ it[None].requests = 4
    /\ it[None].escapes = 1
    /\ Len(it[None].yielded) = 4

\* C18: filtering does not perturb pagination: fed the same answers, the
\* traversal with the channel_account_id filter and the one without it send
\* the same requests (cursor and latestMessageTimestampAfter), take the
\* same stall decisions, stop together with the same stop reason, and
\* count the same items toward scan_limit (dropped ones included).
FilterDoesNotPerturbPagination ==
    /\ it["chA"].requests = it[None].requests
    /\ it["chA"].after = it[None].after
    /\ it["chA"].lmts_after = it[None].lmts_after
    /\ it["chA"].escapes = it[None].escapes
    /\ it["chA"].ended = it[None].ended
    /\ it["chA"].stop_reason = it[None].stop_reason
    /\ it["chA"].yielded_count = it[None].yielded_count

\* every thread the listing has answered carries a latestMessageTimestamp,
\* the value a stall escape advances
TimestampedListing ==
    \A i \in 1..Len(api_log) : \A j \in 1..Len(api_log[i].results) :
        latestMessageTimestamp(api_log[i].results[j]) # NoLmts

\* C15: when the listing repeats a page and would advance once
\* latestMessageTimestampAfter is bumped (its threads carry timestamps),
\* iter_threads_all never stops with a stuck reason
\* (page_repeated_no_timestamp or cursor_repeated_no_timestamp).
StallEscapeNeverStuck ==
    TimestampedListing =>
        \A f \in Filters :
            it[f].stop_reason \notin {"page_repeated_no_timestamp",
                                     "cursor_repeated_no_timestamp"}

\* the listing answers every request with the same non-empty page, which
\* always announces a further page
SamePageForever ==
    /\ Len(api_log) >= 1
    /\ \A i \in 1..Len(api_log) : api_log[i] = api_log[1]
    /\ api_log[1].status = 200
    /\ api_log[1].results # <<>>
    /\ IF listing.fn = "get_messages_all"
       THEN api_log[1].next # None
       ELSE api_log[1].next # None \/ api_log[1].hasMore

NoDuplicates(seq) == Cardinality(SeqToSet(seq)) = Len(seq)

\* the traversal of a listing that repeats forever is over by the fetch
\* after the first repeat
StopsAfterFirstRepeat(fetches, ended) ==
    fetches <= 3 /\ (fetches = 3 => ended)

\* C14: a listing that returns the same page forever makes
\* iter_form_submissions_old and get_messages_all stop within one extra
\* page fetch after the first repeat, on their stall detection, and no
\* item is yielded (or collected) twice.
SamePageForeverHaltsSafely ==
    SamePageForever =>
        IF listing.fn = "get_messages_all"
        THEN /\ StopsAfterFirstRepeat(listing.page_count, listing.ended)
             /\ listing.ended =>
                    listing.stop_reason \in {"cursor_not_advancing",
                                             "page_repeated"}
             /\ NoDuplicates(listing.all_results)
        ELSE /\ StopsAfterFirstRepeat(listing.pages_fetched, listing.ended)
             /\ listing.ended => listing.stop = "stuck"
             /\ NoDuplicates(listing.yielded)

\* C17: iter_form_submissions_old decides the pagination style once, on
\* the first non-empty page (new-style if the page has a next cursor, else
\* legacy if hasMore, else the traversal ends) and never changes it: no
\* traversal sends both an after request and an offset request.
StyleDecidedOnce ==
    [][listing.fn = "iter_form_submissions_old" =>
        /\ listing.use_legacy # None =>
               listing'.use_legacy = listing.use_legacy
        /\ (listing.use_legacy = None /\ listing'.yielded # <<>>) =>
               LET resp == api_log'[Len(api_log')]
               IN IF resp.next # None THEN listing'.use_legacy = "False"
                  ELSE IF resp.hasMore THEN listing'.use_legacy = "True"
                  ELSE listing'.use_legacy = None /\ listing'.ended
        /\ ~({"after", "offset"} \subseteq listing'.sent)
        /\ listing'.use_legacy = "True" => "after" \notin listing'.sent
        /\ listing'.use_legacy = "False" => "offset" \notin listing'.sent]_vars

\* a legacy traversal has sent an offset request although a later page
\* carried a next cursor
LegacyKeptWitness ==
    /\ listing.fn = "iter_form_submissions_old"
    /\ listing.use_legacy = "True"
    /\ "offset" \in listing.sent
    /\ Len(api_log) = 3
    /\ api_log[2].next # None /\ api_log[2].results # <<>>

\* C20: marker round trip: extract_marker_key applied to the note body
\* rendered for a submission, HTML or plain text, returns exactly the
\* Identity form_guid:conversion_id the marker was made of, whatever
\* characters the conversion id has.
MarkerRoundTrip ==
    pc = "create" =>
        /\ extract_marker_key(note_body_html) = submission_key
        /\ extract_marker_key(note_body_text) = submission_key

\* C23: every stall escape of iter_threads_all sets
\* latestMessageTimestampAfter to a value strictly greater than the one of
\* the epoch that stalled, resets the cursor to empty and clears the set
\* of seen page signatures before the next request.
StallEscapeAdvancesWindow ==
    [][\A f \in Filters :
          it'[f].escapes > it[f].escapes =>
              /\ it'[f].lmts_after > it[f].lmts_after
              /\ it'[f].after = None
              /\ it'[f].seen_page_sigs = {}]_vars

\* C24: the stop reason of an iter_threads_all traversal is assigned once,
\* when the traversal ends, and is not overwritten: a traversal that ends
\* with the item cap reached ends with "scan_limit_reached", whatever the
\* paging of its last page says.
StopReasonAssignedOnce ==
    \A f \in Filters :
        /\ it[f].stop_reason # None <=> it[f].ended
        /\ (it[f].ended /\ it[f].yielded_count >= it[f].scan_limit) =>
               it[f].stop_reason = "scan_limit_reached"

\* C28: iter_threads_all never yields two threads with the same id, for
\* any behaviour of the API, pages that overlap or repeat across stall
\* escapes included.
NoThreadYieldedTwice ==
    \A f \in Filters : NoDuplicates(it[f].yielded)

\* a thread yielded before an escape has been listed again after it
RepeatAcrossEpochsWitness ==
    /\ it[None].escapes >= 1
    /\ Len(api_log) >= 3
    /\ it[None].requests = Len(api_log)
    /\ api_log[Len(api_log)].results = api_log[1].results
    /\ Len(it[None].yielded) >= 2
    /\ it[None].yielded[1] = api_log[1].results[1]

\* C30: when iter_threads_all stops because scan_limit was reached, it has
\* counted scan_limit threads and yielded scan_limit - 1 of them: the
\* thread that brings yielded_count to scan_limit is not yielded.
CapYieldsOneLess ==
    \A f \in Filters :
        (it[f].stop_reason = "scan_limit_reached"
         \/ it[f].yielded_count >= it[f].scan_limit) =>
            /\ it[f].ended
            /\ it[f].yielded_count = it[f].scan_limit
            /\ Len(it[f].yielded) = it[f].scan_limit - 1

\* a traversal has stopped on its item cap
CapReachedWitness ==
    /\ it[None].ended
    /\ it[None].stop_reason = "scan_limit_reached"
    /\ Len(it[None].yielded) = 2
    /\ it[None].yielded_count = 3

\* C25: the ledger file changes only by the append of one entry when a note
\* has been created and associated (Written); skipped, failed and dry-run
\* items leave it unchanged, and no step modifies or removes an entry.
LedgerAppendOnly ==
    [][/\ Len(ledger') >= Len(ledger)
       /\ SubSeq(ledger', 1, Len(ledger)) = ledger
       /\ ledger' # ledger =>
             /\ pc = "append" /\ ~dry_run
             /\ notes[note_id] = [body |-> note_body_html,
                                  contact |-> contact_id]
             /\ ledger' = Append(ledger, submission_key)
             /\ counters'.created_notes = counters.created_notes + 1
       /\ (pc \in Running /\ pc' \in Running /\ ~dry_run
           /\ counters'.created_notes > counters.created_notes) =>
             Len(ledger') = Len(ledger) + 1]_vars

\* a run has written one item, appended its entry, and then failed or
\* skipped another item
WrittenThenNotWrittenWitness ==
    /\ pc \in Running
    /\ ~dry_run
    /\ Len(ledger) >= 1
    /\ counters.created_notes = 1
    /\ counters.errors + counters.skipped_local_submission_key
         + counters.skipped_existing_note_marker >= 1

\* the recorded outcomes of the eligible submissions of the run
Outcomes(c) ==
    c.skipped_local_submission_key + c.skipped_existing_note_marker
    + c.skipped_existing_note_semantic + c.skipped_existing_note_exact
    + c.created_notes + c.errors

\* between two submissions, or after the last one
ItemBoundary == pc \in {"fetch", "item", "finish", "done"}

\* C29: at every item boundary of run_create_notes the counters satisfy
\* eligible_submissions = skipped_local_submission_key +
\* skipped_existing_note_marker + skipped_existing_note_semantic +
\* skipped_existing_note_exact + created_notes + number of errors: every
\* eligible submission ends as one skip, one created note or one error.
EligibleEqualsOutcomes ==
    ItemBoundary => counters.eligible_submissions = Outcomes(counters)

\* a run is over in which one eligible submission was written and another
\* one failed
WrittenAndFailedWitness ==
    /\ pc = "finish"
    /\ counters.eligible_submissions = 2
    /\ counters.created_notes = 1
    /\ counters.errors = 1

\* a next cursor that the listing returned before has been returned again
CursorRepeated ==
    \E i, j \in 1..Len(api_log) :
        i < j /\ api_log[i].next # None /\ api_log[j].next = api_log[i].next

\* C27: fetch_all_threads terminates when the next cursors the API returns
\* repeat, whatever the length of the cycle: the fetch that returns a
\* cursor a second time is the last one.
RepeatingCursorEndsFetchAll ==
    CursorRepeated => listing.ended

\* the number of attempts of the request that were answered with status
Answered(status) ==
    Cardinality({i \in 1..Len(api_log) : api_log[i] = status})

\* C26: in hubspot_request and in hubspot_get of extract_10 a request is
\* attempted up to 3 times on 5xx answers and up to 5 times on 429 answers,
\* however the two are interleaved, and never more than 5 times in all; a
\* request that met only 5xx (only 429) answers is retried until its third
\* (fifth) attempt.
RetryBudgets ==
    /\ Len(api_log) <= 5
    /\ Answered(500) <= 3
    /\ Answered(429) <= 5
    /\ (Answered(500) = Len(api_log) /\ Len(api_log) < 3) => ~request.ended
    /\ (Answered(429) = Len(api_log) /\ Len(api_log) < 5) => ~request.ended

\* a request has used up its attempts on 429 answers after a 5xx answer
InterleavedBudgetWitness ==
    /\ request.ended
    /\ request.result = "exited"
    /\ Len(api_log) = 5
    /\ Answered(500) = 1
    /\ Answered(429) = 4

\* the submission names a page, a day and an email
KnownPageDateEmail ==
    /\ calc.submission.pageUrl # <<>>
    /\ calc.submission.submittedAt # 0
    /\ submission_email_normalized(calc.submission) # NoString

\* C21: the semantic key extracted from a marker-less note body of either
\* format, made of a submission with a known page, day and email, is the
\* semantic key run_create_notes computes for that submission
ExtractedKeyIsSemanticKey ==
    (calc.pc = "done" /\ KnownPageDateEmail) => calc.extracted = calc.semantic_key

\* what a values list says: the names without their letter case against the
\* values without surrounding or repeated whitespace
SaidBy(values) ==
    {<<lower(values[i].name), normalize_value(values[i].value)>> : i \in 1..Len(values)}

\* the two payloads say the same and are written differently
SemanticallyIdentical ==
    SaidBy(calc.payloads[1].values) = SaidBy(calc.payloads[2].values)

\* C22: without a native conversionId, two payloads of the same email, page,
\* day and field values get the same fallback identity, whatever the order
\* of the entries of the values list, the letter case of the field names and
\* the whitespace around and inside the values
SameFallbackIdentity ==
    (calc.pc = "done" /\ SemanticallyIdentical)
        => calc.submission_keys[1] = calc.submission_keys[2]

====
